---- MODULE Spec2Model ----
(***************************************************************************)
(* Chain Sentinel: the smart-money finder (src/scanner.py, lines 677-1075), *)
(* the invite store (src/invites.py) and the bot's handlers (src/bot.py).   *)
(*                                                                         *)
(* Eight state machines share this module:                                 *)
(*   SpecIntersect  get_top_holders / get_account_owners / find_intersection*)
(*                  applied to every holder data of the bounded domain;     *)
(*   SpecPnl        calculate_wallet_pnl, replayed one token leg at a time; *)
(*   Spec           find_smart_money, one request from call to return, the  *)
(*                  tasks of each gather returning in any order;            *)
(*   SpecBatch      find_smart_money on requests of up to 7 tokens and      *)
(*                  intersections of more than 30 wallets;                  *)
(*   SpecDeadline   Spec with the time the fetches of a gather take;        *)
(*   SpecReplay     calls of find_smart_money one after the other in one    *)
(*                  process, next to a second request in the same loop;     *)
(*   SpecBot        the handlers main() registers and the functions of the  *)
(*                  invite store, for the admin and two users;              *)
(*   SpecFloat      calculate_wallet_pnl with its sums in binary64.         *)
(* A machine leaves the variables of the other machines untouched.          *)
(***************************************************************************)
EXTENDS Integers, Sequences, FiniteSets, TLC

VARIABLES
    pc,               \* position of the request in find_smart_money
    mints,            \* the request's token list, after the [:5] truncation
    holder_lists,     \* result of the first asyncio.gather, one list per mint
    common,           \* find_intersection's dict, as an insertion-ordered sequence
    result,           \* the value find_smart_money returns
    min_win_rate,     \* the request's win-rate threshold, in thousandths
    min_pnl_sol,      \* the request's PnL threshold, in units of 0.0001 SOL
    holders_done,     \* indices of mints whose get_top_holders task has returned
    common_wallets,   \* list(common.keys())[:30]
    pnl_results,      \* result of the second asyncio.gather, one per common wallet
    pnl_done,         \* indices of wallets whose calculate_wallet_pnl task has returned
    fetches,          \* provider fetches started in this request, by kind
    request,          \* the mints argument as the caller passed it
    responses,        \* what the provider answered to each task of the two gathers
    pnl_pc,           \* position of one calculate_wallet_pnl call
    sol_change,       \* the wallet's native change in the transaction being replayed
    token_pnl,        \* defaultdict mint -> ledger, as an insertion-ordered sequence
    current_holdings, \* dict mint -> quantity still held
    trades,           \* the list of classified legs
    legs_seen,        \* token legs replayed so far in this call
    report,           \* the value calculate_wallet_pnl returns
    elapsed,          \* time since the call of find_smart_money, in ticks
    waited,           \* time the gather the request is in has been awaited, in ticks
    excluded,         \* the module-level set EXCLUDED_PROGRAMS, as the process holds it
    served,           \* calls of find_smart_money that have returned in this process
    previous,         \* what the call before this one was given and what it returned
    other_pc,         \* position of a second request running in the same event loop
    invites,          \* invites.json: token -> {"used": ..., "redeemed_by": ...}
    users,            \* authorized_users.json: the list of authorized user ids
    watchlist,        \* the watchlists: the pairs <<user, watched address>>
    scans,            \* the users a scan has been run for
    redeemed,         \* per token, the calls of use_invite that returned True
    refused           \* the used tokens a later call of use_invite has returned False for

reqVars == <<pc, mints, min_win_rate, min_pnl_sol, holder_lists, holders_done, common,
             common_wallets, pnl_results, pnl_done, result, fetches, request, responses>>
pnlVars == <<pnl_pc, sol_change, token_pnl, current_holdings, trades, legs_seen, report>>
timeVars == <<elapsed, waited>>
procVars == <<excluded, served, previous, other_pc>>
botVars == <<invites, users, watchlist, scans, redeemed, refused>>
extVars == <<timeVars, procVars, botVars>>
vars == <<reqVars, pnlVars, extVars>>

\* Python's None where a dict is expected; a dict is a record
None == [none |-> TRUE]
\* a null account slot in the provider's getMultipleAccounts answer
NullAccount == "null"

(***************************************************************************)
(* Addresses.  Wallet addresses are base58 strings of 32..44 characters;    *)
(* ShortAddr is a string the len(wallet) < 32 test rejects.                 *)
(***************************************************************************)
T1 == "MintAAAAAAAAAAAAAAAAAAAAAAAAAAAAAAAAAAAAAAA1"
T2 == "MintBBBBBBBBBBBBBBBBBBBBBBBBBBBBBBBBBBBBBBB2"
T3 == "MintCCCCCCCCCCCCCCCCCCCCCCCCCCCCCCCCCCCCCCC3"
Mints == {T1, T2, T3}
T4 == "MintDDDDDDDDDDDDDDDDDDDDDDDDDDDDDDDDDDDDDDD4"
T5 == "MintEEEEEEEEEEEEEEEEEEEEEEEEEEEEEEEEEEEEEEE5"
T6 == "MintFFFFFFFFFFFFFFFFFFFFFFFFFFFFFFFFFFFFFFF6"
T7 == "MintGGGGGGGGGGGGGGGGGGGGGGGGGGGGGGGGGGGGGGG7"
BtTokens == <<T1, T2, T3, T4, T5, T6, T7>>
\* the place of a token among the tokens of the model, which BtTokens lists in
\* ascending order of their addresses
TokenNo(t) == CHOOSE k \in 1..Len(BtTokens) : BtTokens[k] = t

W1 == "WalletAAAAAAAAAAAAAAAAAAAAAAAAAAAAAAAAAAAAA1"
W2 == "WalletBBBBBBBBBBBBBBBBBBBBBBBBBBBBBBBBBBBBB2"
W3 == "WalletCCCCCCCCCCCCCCCCCCCCCCCCCCCCCCCCCCCCC3"
SystemProgram == "11111111111111111111111111111111"
ShortAddr == "short"
\* an owner field that carries a JSON number instead of an address: the marker
\* stands for the number, it is no string of the program
NumericOwner == "<number 12345>"

EXCLUDED_PROGRAMS ==
    { "TokenkegQfeZyiNwAJbNbGKPFXCWuBvf9Ss623VQ5DA",
      "11111111111111111111111111111111",
      "TokenzQdBNbLqP5VEhdkAS6EPFLC1PHnBqCXEpPxuEb",
      "ATokenGPvbdGVxr1b2hvZbsiqW5xWH25efTNsLJe1bfE",
      "So11111111111111111111111111111111111111112" }

MinAddrLen == 32
MinAppearances == 2
MaxMints == 5
MaxCommonWallets == 30
TopQualified == 10

\* Bounds of the model.
MaxAccounts == 2      \* token accounts the provider lists per mint

Range(s) == {s[i] : i \in 1..Len(s)}

RECURSIVE SeqsUpTo(_, _)
SeqsUpTo(S, n) ==
    IF n = 0 THEN {<<>>}
    ELSE LET shorter == SeqsUpTo(S, n - 1)
         IN  shorter \cup {Append(s, x) : s \in {t \in shorter : Len(t) = n - 1}, x \in S}

\* a descending sort that turns the order of equal keys around
InsertDesc_TiesReversed(order, i, keys) ==
    LET k == Cardinality({p \in 1..Len(order) : keys[order[p]] > keys[i]})
    IN  SubSeq(order, 1, k) \o <<i>> \o SubSeq(order, k + 1, Len(order))

\* sorted(seq, key=..., reverse=True) with keys[i] the key of seq[i]: Python's sort
\* is stable, also with reverse=True, so equal keys keep their order
InsertDesc(order, i, keys) ==
    LET k == Cardinality({p \in 1..Len(order) : keys[order[p]] >= keys[i]})
    IN  SubSeq(order, 1, k) \o <<i>> \o SubSeq(order, k + 1, Len(order))

RECURSIVE SortOrder(_, _, _)
SortOrder(order, i, keys) ==
    IF i > Len(keys) THEN order ELSE SortOrder(InsertDesc(order, i, keys), i + 1, keys)

SortedDesc(seq, keys) ==
    LET order == SortOrder(<<>>, 1, keys)
    IN  [p \in 1..Len(seq) |-> seq[order[p]]]

\* the slice forgotten
Truncate_Nothing(s, n) == s

\* seq[:n]
Truncate(s, n) == IF Len(s) > n THEN SubSeq(s, 1, n) ELSE s

(***************************************************************************)
(* STEP 1 - get_top_holders / get_account_owners.                           *)
(* A provider answer for one mint is either a failure of the RPC call or    *)
(* the list of the owner fields of the mint's largest token accounts, one   *)
(* entry per token account, in the provider's order.  An entry is an owner  *)
(* address, "" (no owner field) or NullAccount (a null slot)      .         *)
(***************************************************************************)
OwnerValues == {W1, W2, SystemProgram, ShortAddr, ""}

HolderAnswers ==
    {[ok |-> FALSE, owners |-> <<>>]}
        \cup {[ok |-> TRUE, owners |-> o] : o \in SeqsUpTo(OwnerValues, MaxAccounts)}

\* for account in value: if not account: continue; owner = ...; if owner: append
RECURSIVE get_account_owners(_)
get_account_owners(accounts) ==
    IF accounts = <<>> THEN <<>>
    ELSE LET account == Head(accounts)
             rest    == get_account_owners(Tail(accounts))
         IN  IF account = NullAccount \/ account = "" THEN rest ELSE <<account>> \o rest

\* except Exception: return []; if not token_account_addresses: return []
get_top_holders(answer) ==
    IF ~answer.ok THEN <<>>
    ELSE IF answer.owners = <<>> THEN <<>>
    ELSE get_account_owners(answer.owners)

(***************************************************************************)
(* STEP 2 - find_intersection.  A dict is a sequence of entries in          *)
(* insertion order: [wallet, held_mints].                                   *)
(***************************************************************************)
\* the exclusion test with the EXCLUDED_PROGRAMS half forgotten
IsSkipped_LengthOnly(wallet) == Len(wallet) < MinAddrLen

\* if len(wallet) < 32 or wallet in EXCLUDED_PROGRAMS: continue
IsSkipped(wallet) == Len(wallet) < MinAddrLen \/ wallet \in excluded

KeyIndex(dict, wallet) ==
    IF \E i \in 1..Len(dict) : dict[i].wallet = wallet
    THEN CHOOSE i \in 1..Len(dict) : dict[i].wallet = wallet
    ELSE 0

\* the mint put where it keeps the wallet's list sorted
AppendMint_KeepSorted(dict, wallet, mint) ==
    LET i == KeyIndex(dict, wallet)
        Before(m) == TokenNo(m) < TokenNo(mint)
        NotBefore(m) == ~(TokenNo(m) < TokenNo(mint))
    IN  IF i = 0
        THEN Append(dict, [wallet |-> wallet, held_mints |-> <<mint>>])
        ELSE [dict EXCEPT ![i].held_mints =
                  SelectSeq(@, Before) \o <<mint>> \o SelectSeq(@, NotBefore)]

\* wallet_to_mints[wallet].append(mint) on a defaultdict(list)
AppendMint(dict, wallet, mint) ==
    LET i == KeyIndex(dict, wallet)
    IN  IF i = 0
        THEN Append(dict, [wallet |-> wallet, held_mints |-> <<mint>>])
        ELSE [dict EXCEPT ![i].held_mints = Append(@, mint)]

\* for wallet in holders: ...
RECURSIVE AddHolders(_, _, _)
AddHolders(dict, mint, holders) ==
    IF holders = <<>> THEN dict
    ELSE LET wallet == Head(holders)
         IN  IF IsSkipped(wallet) THEN AddHolders(dict, mint, Tail(holders))
             ELSE IF KeyIndex(dict, wallet) = 0
             THEN AddHolders(Append(dict, [wallet |-> wallet, held_mints |-> <<mint>>]),
                             mint, Tail(holders))
             ELSE AddHolders(AppendMint(dict, wallet, mint), mint, Tail(holders))

\* for mint, holders in zip(mints, holder_lists): ...
RECURSIVE WalletToMints(_, _, _)
WalletToMints(dict, ms, hls) ==
    IF ms = <<>> \/ hls = <<>> THEN dict
    ELSE WalletToMints(AddHolders(dict, Head(ms), Head(hls)), Tail(ms), Tail(hls))

\* {wallet: held for wallet, held in wallet_to_mints.items() if len(held) >= min_appearances}
KeepCommon(dict, min_appearances) ==
    LET Keep(e) == Len(e.held_mints) >= min_appearances
    IN  SelectSeq(dict, Keep)

\* dict(sorted(common.items(), key=lambda x: len(x[1]), reverse=True))
find_intersection(hls, ms, min_appearances) ==
    LET kept == KeepCommon(WalletToMints(<<>>, ms, hls), min_appearances)
    IN  SortedDesc(kept, [i \in 1..Len(kept) |-> Len(kept[i].held_mints)])

\* a dedupe that uses the module-level set as its "seen" set
ExcludedAfterIntersection_MarksSeen(hls) ==
    excluded \cup UNION {{hls[i][k] : k \in 1..Len(hls[i])} : i \in 1..Len(hls)}

\* EXCLUDED_PROGRAMS after a call of find_intersection: "wallet in EXCLUDED_PROGRAMS"
\* reads the set, and no statement of the module adds to it or removes from it
ExcludedAfterIntersection(hls) == excluded

(***************************************************************************)
(* STEP 3 - calculate_wallet_pnl(session, wallet, mints).                   *)
(*                                                                         *)
(* Native amounts are integers in units of 20 000 lamports (0.00002 SOL),   *)
(* so that round(x, 4) is a real rounding to units of 0.0001 SOL and never  *)
(* meets a tie; token quantities are whole numbers.  The roi_pct field of   *)
(* a token report is left out: no other value is computed from it.          *)
(***************************************************************************)
WALLET == W1          \* the wallet argument of the call
Other  == "PoolAAAAAAAAAAAAAAAAAAAAAAAAAAAAAAAAAAAAAAA9"   \* the other party of a transfer

UnitsPerRound4 == 5   \* 0.0001 SOL in units of 0.00002 SOL

\* Bounds of the model.
MaxLegs == 3          \* token legs in the activity window

Abs(x) == IF x < 0 THEN -x ELSE x

\* round(x, 4), the result in units of 0.0001 SOL
Round4(x) ==
    IF x >= 0 THEN (2 * x + UnitsPerRound4) \div (2 * UnitsPerRound4)
    ELSE -((2 * (-x) + UnitsPerRound4) \div (2 * UnitsPerRound4))

\* round(wins / total_trades, 3), the result in thousandths
Round3Ratio(num, den) == (2000 * num + den) \div (2 * den)

EmptyDict == [m \in {} |-> 0]

\* dict.get(key, 0)
Get(dict, key) == IF key \in DOMAIN dict THEN dict[key] ELSE 0

\* dict[key] = value
Put(dict, key, value) ==
    [k \in DOMAIN dict \cup {key} |-> IF k = key THEN value ELSE dict[k]]

(* The provider's answer to the activity request. *)
NativeChanges == {-100002, 0, 100002, 300001}
Amounts == {0, 50, 80}
LegMints == {"", T1, T2}

ActivityAnswers == {"exception", "not_200", "not_a_list", "empty_list", "list"}

\* the wallet's entry, and the entry of an account that is not the wallet
AccountEntries ==
    [account : {WALLET}, nativeBalanceChange : NativeChanges]
        \cup {[account |-> Other, nativeBalanceChange |-> 5000]}

\* accountData of one transaction: each account is listed at most once
AccountDatas ==
    {<<>>} \cup {<<e>> : e \in AccountEntries}
           \cup {p \in AccountEntries \X AccountEntries : p[1].account # p[2].account}

Legs == [mint : LegMints, fromUserAccount : {WALLET, Other},
         toUserAccount : {WALLET, Other}, tokenAmount : Amounts]

Txs == [accountData : AccountDatas]

\* a record of the list that is no object (null), or a leg whose tokenAmount is no number
Malformed == [malformed |-> TRUE]
IsMalformed(x) == "malformed" \in DOMAIN x

\* for change in tx.get("accountData", []): if change.get("account") == wallet: sol_change = ...
RECURSIVE SolChange(_, _, _)
SolChange(sol, accountData, wallet) ==
    IF accountData = <<>> THEN sol
    ELSE SolChange(IF Head(accountData).account = wallet
                   THEN Head(accountData).nativeBalanceChange ELSE sol,
                   Tail(accountData), wallet)

\* the classification with the sign of the native change not looked at
Classify_SideOnly(leg, wallet, sol) ==
    IF leg.mint = "" \/ leg.tokenAmount = 0 THEN "SKIP"
    ELSE IF leg.toUserAccount = wallet THEN "BUY"
    ELSE IF leg.fromUserAccount = wallet THEN "SELL"
    ELSE "SKIP"

\* the if / elif of the leg loop, after "if not mint or amount == 0: continue"
Classify(leg, wallet, sol) ==
    IF leg.mint = "" \/ leg.tokenAmount = 0 THEN "SKIP"
    ELSE IF leg.toUserAccount = wallet /\ sol < 0 THEN "BUY"
    ELSE IF leg.fromUserAccount = wallet /\ sol > 0 THEN "SELL"
    ELSE "SKIP"

LedgerIndex(ledger, mint) ==
    IF \E i \in 1..Len(ledger) : ledger[i].mint = mint
    THEN CHOOSE i \in 1..Len(ledger) : ledger[i].mint = mint
    ELSE 0

\* token_pnl[mint]: the defaultdict inserts a zero ledger for a new mint
Touch(ledger, mint) ==
    IF LedgerIndex(ledger, mint) # 0 THEN ledger
    ELSE Append(ledger, [mint |-> mint, buy_sol |-> 0, sell_sol |-> 0,
                         buy_amount |-> 0, sell_amount |-> 0])

\* token_pnl[mint]["buy_sol"] += cost_sol; token_pnl[mint]["buy_amount"] += amount
BookBuy(ledger, mint, cost_sol, amount) ==
    LET l == Touch(ledger, mint)
        i == LedgerIndex(l, mint)
    IN  [l EXCEPT ![i].buy_sol = @ + cost_sol, ![i].buy_amount = @ + amount]

\* token_pnl[mint]["sell_sol"] += recv_sol; token_pnl[mint]["sell_amount"] += amount
BookSell(ledger, mint, recv_sol, amount) ==
    LET l == Touch(ledger, mint)
        i == LedgerIndex(l, mint)
    IN  [l EXCEPT ![i].sell_sol = @ + recv_sol, ![i].sell_amount = @ + amount]

\* current_holdings[mint] = current_holdings.get(mint, 0) + amount
HoldAfterBuy(holdings, mint, amount) == Put(holdings, mint, Get(holdings, mint) + amount)

\* the SELL update with the max(0, ...) forgotten
HoldAfterSell_NoClamp(holdings, mint, amount) ==
    Put(holdings, mint, Get(holdings, mint) - amount)

\* current_holdings[mint] = max(0, current_holdings.get(mint, 0) - amount)
HoldAfterSell(holdings, mint, amount) ==
    LET left == Get(holdings, mint) - amount
    IN  Put(holdings, mint, IF left > 0 THEN left ELSE 0)

\* the body of "for transfer in tx.get("tokenTransfers", [])" for one leg; st holds
\* the three accumulators token_pnl, current_holdings and trades
ApplyLeg(st, leg, wallet, sol) ==
    LET kind == Classify(leg, wallet, sol)
    IN  CASE kind = "BUY" ->
               [st EXCEPT
                  !.token_pnl = BookBuy(@, leg.mint, Abs(sol), leg.tokenAmount),
                  !.current_holdings = HoldAfterBuy(@, leg.mint, leg.tokenAmount),
                  !.trades = Append(@, [type |-> "BUY", mint |-> leg.mint,
                                        sol |-> Abs(sol), amount |-> leg.tokenAmount])]
          [] kind = "SELL" ->
               [st EXCEPT
                  !.token_pnl = BookSell(@, leg.mint, sol, leg.tokenAmount),
                  !.current_holdings = HoldAfterSell(@, leg.mint, leg.tokenAmount),
                  !.trades = Append(@, [type |-> "SELL", mint |-> leg.mint,
                                        sol |-> sol, amount |-> leg.tokenAmount])]
          [] OTHER -> st

(* The report, lines 924-963. *)
\* is_win = pnl > 0, counted only inside "if bought > 0"
RECURSIVE Wins(_)
Wins(ledger) ==
    IF ledger = <<>> THEN 0
    ELSE LET d == Head(ledger)
         IN  (IF d.buy_sol > 0 /\ d.sell_sol - d.buy_sol > 0 THEN 1 ELSE 0)
                 + Wins(Tail(ledger))

\* total_pnl += pnl, for every mint of token_pnl
RECURSIVE TotalPnl(_)
TotalPnl(ledger) ==
    IF ledger = <<>> THEN 0
    ELSE (Head(ledger).sell_sol - Head(ledger).buy_sol) + TotalPnl(Tail(ledger))

\* token_reports.append({...}) under "if bought > 0"
RECURSIVE TokenReports(_, _)
TokenReports(ledger, holdings) ==
    IF ledger = <<>> THEN <<>>
    ELSE LET d == Head(ledger)
             rest == TokenReports(Tail(ledger), holdings)
         IN  IF d.buy_sol > 0
             THEN <<[mint       |-> d.mint,
                     bought_sol |-> Round4(d.buy_sol),
                     sold_sol   |-> Round4(d.sell_sol),
                     pnl_sol    |-> Round4(d.sell_sol - d.buy_sol),
                     holding    |-> Get(holdings, d.mint),
                     win        |-> d.sell_sol - d.buy_sol > 0]>> \o rest
             ELSE rest

\* token_reports.sort(key=lambda x: x["pnl_sol"], reverse=True)
SortedReports(reports) ==
    SortedDesc(reports, [i \in 1..Len(reports) |-> reports[i].pnl_sol])

\* win_rate = wins / total_trades if total_trades > 0 else 0, total_trades = len(token_pnl)
WinRate(ledger) ==
    IF Len(ledger) > 0 THEN Round3Ratio(Wins(ledger), Len(ledger)) ELSE 0

\* {k: v for k, v in current_holdings.items() if v > 0}
PositiveHoldings(holdings) ==
    [k \in {m \in DOMAIN holdings : holdings[m] > 0} |-> holdings[k]]

BuildReport(ledger, holdings, trds) ==
    [total_pnl_sol    |-> Round4(TotalPnl(ledger)),
     win_rate         |-> WinRate(ledger),
     wins             |-> Wins(ledger),
     total_positions  |-> Len(ledger),
     token_breakdown  |-> SortedReports(TokenReports(ledger, holdings)),
     current_holdings |-> PositiveHoldings(holdings),
     trade_count      |-> Len(trds)]

\* the tail of the function with the "if not trades: return None" forgotten
PnlReturn_NoTradesCheck(ledger, holdings, trds) == BuildReport(ledger, holdings, trds)

\* if not trades: return None ... return {...}
PnlReturn(ledger, holdings, trds) ==
    IF trds = <<>> THEN None ELSE BuildReport(ledger, holdings, trds)

\* the variables of calculate_wallet_pnl before any call
PnlIdle ==
    /\ pnl_pc = "fetch"
    /\ sol_change = 0
    /\ token_pnl = <<>>
    /\ current_holdings = EmptyDict
    /\ trades = <<>>
    /\ legs_seen = 0
    /\ report = None

\* no task of either gather has been answered yet
NoResponses == [holders |-> <<>>, activity |-> <<>>]

\* no time has passed
TimeIdle == elapsed = 0 /\ waited = 0

\* the process after import: the module-level set as written in the source, no
\* call served, no other request under way
ProcIdle ==
    /\ excluded = EXCLUDED_PROGRAMS
    /\ served = 0
    /\ previous = None
    /\ other_pc = "start"

\* dict.get / "in" on a dict of tokens or of users
NoEntries == [k \in {} |-> 0]

\* the bot before its first update: neither file exists, no watchlist, no scan
BotIdle ==
    /\ invites = NoEntries
    /\ users = <<>>
    /\ watchlist = {}
    /\ scans = {}
    /\ redeemed = NoEntries
    /\ refused = {}

ExtIdle == TimeIdle /\ ProcIdle /\ BotIdle

\* the variables of find_smart_money before any call
ReqIdle ==
    /\ pc = "start"
    /\ mints = <<>>
    /\ min_win_rate = 0
    /\ min_pnl_sol = 0
    /\ holder_lists = <<>>
    /\ holders_done = {}
    /\ common = <<>>
    /\ common_wallets = <<>>
    /\ pnl_results = <<>>
    /\ pnl_done = {}
    /\ result = None
    /\ fetches = [holders |-> 0, activity |-> 0]
    /\ request = <<>>
    /\ responses = NoResponses

(***************************************************************************)
(* SpecIntersect: steps 1 and 2 of a request on every provider answer.      *)
(* The provider answers one snapshot per request: a token named twice gets  *)
(* the same answer for both of its fetches.                                 *)
(***************************************************************************)
Requests ==
    { <<T1, T2>>, <<T1, T1>>, <<T1, T2, T3>>, <<T1, T2, T1>>, <<T1, T1, T2>> }

IxInit == ReqIdle /\ PnlIdle /\ ExtIdle

IxRequest ==
    /\ pc = "start"
    /\ \E m \in Requests : request' = m /\ mints' = Truncate(m, MaxMints)
    /\ pc' = "fetch_holders"
    /\ UNCHANGED <<min_win_rate, min_pnl_sol, holder_lists, holders_done, common,
                   common_wallets, pnl_results, pnl_done, result, fetches, responses,
                   pnlVars, extVars>>

\* holder_lists = await asyncio.gather(*[get_top_holders(session, mint) for mint in mints])
IxGatherHolders ==
    /\ pc = "fetch_holders"
    /\ \E answer \in [Range(mints) -> HolderAnswers] :
          holder_lists' = [i \in 1..Len(mints) |-> get_top_holders(answer[mints[i]])]
    /\ holders_done' = 1..Len(mints)
    /\ fetches' = [fetches EXCEPT !.holders = Len(mints)]
    /\ pc' = "intersect"
    /\ UNCHANGED <<mints, min_win_rate, min_pnl_sol, common, common_wallets, pnl_results,
                   pnl_done, result, request, responses, pnlVars, extVars>>

\* common = find_intersection(holder_lists, mints, min_appearances=2)
IxFindIntersection ==
    /\ pc = "intersect"
    /\ common' = find_intersection(holder_lists, mints, MinAppearances)
    /\ excluded' = ExcludedAfterIntersection(holder_lists)
    /\ pc' = "done"
    /\ UNCHANGED <<mints, min_win_rate, min_pnl_sol, holder_lists, holders_done,
                   common_wallets, pnl_results, pnl_done, result, fetches, request,
                   responses, pnlVars, timeVars, served, previous, other_pc, botVars>>

IxNext == IxRequest \/ IxGatherHolders \/ IxFindIntersection

SpecIntersect == IxInit /\ [][IxNext]_vars

\* the leg loop with the native change booked once per transaction, to the first
\* leg that is classified
RECURSIVE ReplayLegs_OncePerTx(_, _, _, _)
ReplayLegs_OncePerTx(st, legs, wallet, sol) ==
    IF legs = <<>> \/ st.raised THEN st
    ELSE IF IsMalformed(Head(legs)) THEN [st EXCEPT !.raised = TRUE]
    ELSE IF Classify(Head(legs), wallet, sol) # "SKIP"
    THEN ApplyLeg(st, Head(legs), wallet, sol)
    ELSE ReplayLegs_OncePerTx(st, Tail(legs), wallet, sol)

\* the leg loop of one transaction; an exception ends the replay
RECURSIVE ReplayLegs(_, _, _, _)
ReplayLegs(st, legs, wallet, sol) ==
    IF legs = <<>> \/ st.raised THEN st
    ELSE IF IsMalformed(Head(legs)) THEN [st EXCEPT !.raised = TRUE]
    ELSE ReplayLegs(ApplyLeg(st, Head(legs), wallet, sol), Tail(legs), wallet, sol)

\* for tx in txs: ...
RECURSIVE ReplayTxs(_, _, _)
ReplayTxs(st, txs, wallet) ==
    IF txs = <<>> \/ st.raised THEN st
    ELSE IF IsMalformed(Head(txs)) THEN [st EXCEPT !.raised = TRUE]
    ELSE ReplayTxs(ReplayLegs(st, Head(txs).tokenTransfers, wallet,
                              SolChange(0, Head(txs).accountData, wallet)),
                   Tail(txs), wallet)

\* the whole call on one provider answer [kind, txs]
calculate_wallet_pnl(answer, wallet) ==
    IF answer.kind # "list" \/ answer.txs = <<>> THEN None
    ELSE LET st == ReplayTxs([token_pnl |-> <<>>, current_holdings |-> EmptyDict,
                              trades |-> <<>>, raised |-> FALSE], answer.txs, wallet)
         IN  IF st.raised THEN None
             ELSE PnlReturn(st.token_pnl, st.current_holdings, st.trades)

(***************************************************************************)
(* SpecPnl: one call of calculate_wallet_pnl, one step per provider answer, *)
(* per transaction and per token leg.  pnl_pc is "fetch" before the GET,    *)
(* "first_tx"/"next_tx" between transactions, "legs" inside tokenTransfers, *)
(* "returned" after a return statement of the try block and "except" after  *)
(* the return of the except clause.                                         *)
(***************************************************************************)
PnlInit == ReqIdle /\ PnlIdle /\ ExtIdle

\* lines 872-879: the GET, the status test and the shape test of the body
PnlFetch(answer) ==
    /\ pnl_pc = "fetch"
    /\ pnl_pc' = CASE answer = "exception" -> "except"
                   [] answer = "list" -> "first_tx"
                   [] OTHER -> "returned"
    /\ report' = None
    /\ UNCHANGED <<sol_change, token_pnl, current_holdings, trades, legs_seen, reqVars, extVars>>

\* for tx in txs: ... the accountData loop; a record that is no object raises
PnlBeginTx(tx) ==
    /\ pnl_pc \in {"first_tx", "next_tx"}
    /\ IF IsMalformed(tx)
       THEN /\ pnl_pc' = "except"
            /\ report' = None
            /\ UNCHANGED sol_change
       ELSE /\ pnl_pc' = "legs"
            /\ sol_change' = SolChange(0, tx.accountData, WALLET)
            /\ UNCHANGED report
    /\ UNCHANGED <<token_pnl, current_holdings, trades, legs_seen, reqVars, extVars>>

\* the body of "for transfer in tx.get("tokenTransfers", [])" for one well-formed leg
PnlReplayLeg(leg) ==
    /\ pnl_pc = "legs"
    /\ legs_seen < MaxLegs
    /\ legs_seen' = legs_seen + 1
    /\ LET st == ApplyLeg([token_pnl |-> token_pnl, current_holdings |-> current_holdings,
                            trades |-> trades], leg, WALLET, sol_change)
       IN  /\ token_pnl' = st.token_pnl
           /\ current_holdings' = st.current_holdings
           /\ trades' = st.trades
    /\ UNCHANGED <<pnl_pc, sol_change, report, reqVars, extVars>>

\* float(transfer.get("tokenAmount", 0)) raises on a leg that carries no number
PnlBadLeg ==
    /\ pnl_pc = "legs"
    /\ legs_seen < MaxLegs
    /\ legs_seen' = legs_seen + 1
    /\ pnl_pc' = "except"
    /\ report' = None
    /\ UNCHANGED <<sol_change, token_pnl, current_holdings, trades, reqVars, extVars>>

\* tokenTransfers is exhausted: on to the next transaction
PnlEndTx ==
    /\ pnl_pc = "legs"
    /\ pnl_pc' = "next_tx"
    /\ UNCHANGED <<sol_change, token_pnl, current_holdings, trades, legs_seen, report, reqVars, extVars>>

\* txs is exhausted: lines 921-963
PnlFinish ==
    /\ pnl_pc = "next_tx"
    /\ report' = PnlReturn(token_pnl, current_holdings, trades)
    /\ pnl_pc' = "returned"
    /\ UNCHANGED <<sol_change, token_pnl, current_holdings, trades, legs_seen, reqVars, extVars>>

PnlNext ==
    \/ \E answer \in ActivityAnswers : PnlFetch(answer)
    \/ \E tx \in Txs \cup {Malformed} : PnlBeginTx(tx)
    \/ \E leg \in Legs : PnlReplayLeg(leg)
    \/ PnlBadLeg
    \/ PnlEndTx
    \/ PnlFinish

SpecPnl == PnlInit /\ [][PnlNext]_vars

(***************************************************************************)
(* MAIN ENTRY - find_smart_money(mints, min_win_rate, min_pnl_sol).         *)
(***************************************************************************)
InputError == [error |-> "Please provide at least 2 contract addresses."]

\* the no-overlap outcome mixed up with the input error
NoCommonWallets_AsInputError(hls) == InputError

\* lines 726-730
NoCommonWallets(hls) ==
    [error |-> "No common wallets found across these tokens. Try tokens with more overlap.",
     holder_counts |-> [i \in 1..Len(hls) |-> Len(hls[i])]]

\* the token list of the first wallet of the intersection, whatever the wallet
HeldMintsOf_FirstEntry(dict, wallet) == dict[1].held_mints

\* common[wallet]
HeldMintsOf(dict, wallet) == dict[KeyIndex(dict, wallet)].held_mints

\* pnl_data["wallet"] = wallet; pnl_data["tokens_held"] = common[wallet]
QualifiedEntry(pnl_data, wallet, held) ==
    [wallet           |-> wallet,
     tokens_held      |-> held,
     total_pnl_sol    |-> pnl_data.total_pnl_sol,
     win_rate         |-> pnl_data.win_rate,
     wins             |-> pnl_data.wins,
     total_positions  |-> pnl_data.total_positions,
     token_breakdown  |-> pnl_data.token_breakdown,
     current_holdings |-> pnl_data.current_holdings,
     trade_count      |-> pnl_data.trade_count]

\* the PnL bound taken as exclusive
Qualifies_StrictPnl(pnl_data, wr, pnl) ==
    /\ pnl_data # None
    /\ pnl_data.win_rate >= wr
    /\ pnl_data.total_pnl_sol > pnl

\* if win_rate >= min_win_rate and total_pnl >= min_pnl_sol
Qualifies(pnl_data, wr, pnl) ==
    /\ pnl_data # None
    /\ pnl_data.win_rate >= wr
    /\ pnl_data.total_pnl_sol >= pnl

\* for wallet, pnl_data in zip(common_wallets, pnl_results): ... qualified.append(pnl_data)
RECURSIVE Qualified(_, _, _, _, _)
Qualified(wallets, results, dict, wr, pnl) ==
    IF wallets = <<>> \/ results = <<>> THEN <<>>
    ELSE LET rest == Qualified(Tail(wallets), Tail(results), dict, wr, pnl)
         IN  IF Qualifies(Head(results), wr, pnl)
             THEN <<QualifiedEntry(Head(results), Head(wallets),
                                   HeldMintsOf(dict, Head(wallets)))>> \o rest
             ELSE rest

\* qualified.sort(key=lambda x: x.get("total_pnl_sol", 0), reverse=True)
SortedQualified(qualified) ==
    SortedDesc(qualified, [i \in 1..Len(qualified) |-> qualified[i].total_pnl_sol])

\* the dict returned at the end of the function
Report(ms, dict, wallets, results, wr, pnl) ==
    [mints_analyzed       |-> ms,
     total_common_wallets |-> Len(dict),
     qualified_wallets    |->
         Truncate(SortedQualified(Qualified(wallets, results, dict, wr, pnl)), TopQualified),
     min_win_rate         |-> wr,
     min_pnl_sol          |-> pnl]

(***************************************************************************)
(* Spec: one request.  The provider answers every fetch on its own; the     *)
(* tasks of a gather return in any order.  pc is "start" before the call,   *)
(* "holders" inside the first gather, "pnl" inside the second, "done"       *)
(* after a return statement and "raised" when an exception left the         *)
(* function.                                                                *)
(***************************************************************************)
SmRequests ==
    { <<>>, <<T1>>, <<T1, T2>>, <<T1, T2, T3>> }

\* [min_win_rate, min_pnl_sol]: the defaults 0.60 and 10.0, 0.60 with 3.0, 1.0 with 3.0
SmThresholds == { <<600, 100000>>, <<600, 30000>>, <<1000, 30000>> }

SmHolderAnswers ==
    { [ok |-> FALSE, owners |-> <<>>],
      [ok |-> TRUE, owners |-> <<>>],
      [ok |-> TRUE, owners |-> <<W1>>],
      [ok |-> TRUE, owners |-> <<W3, W2, W1>>],
      [ok |-> TRUE, owners |-> <<NullAccount, W1, SystemProgram>>],
      [ok |-> TRUE, owners |-> <<W1, NumericOwner>>] }

Tx(sol, legs, wallet) ==
    [accountData |-> <<[account |-> wallet, nativeBalanceChange |-> sol]>>,
     tokenTransfers |-> legs]
Bought(mint, wallet, qty) ==
    [mint |-> mint, fromUserAccount |-> Other, toUserAccount |-> wallet, tokenAmount |-> qty]
Sold(mint, wallet, qty) ==
    [mint |-> mint, fromUserAccount |-> wallet, toUserAccount |-> Other, tokenAmount |-> qty]

\* the activity answers the provider may give for a wallet
SmActivityAnswers(w) ==
    { [kind |-> "exception", txs |-> <<>>],
      [kind |-> "not_200", txs |-> <<>>],
      \* one BUY of 2.00004 SOL and one SELL of 6.00002 SOL of T1
      [kind |-> "list", txs |-> << Tx(-100002, <<Bought(T1, w, 50)>>, w),
                                   Tx(300001, <<Sold(T1, w, 50)>>, w) >>],
      \* the same with a second SELL: a PnL of 10.0 SOL
      [kind |-> "list", txs |-> << Tx(-100002, <<Bought(T1, w, 50)>>, w),
                                   Tx(300001, <<Sold(T1, w, 50)>>, w),
                                   Tx(300001, <<Sold(T1, w, 50)>>, w) >>],
      \* a BUY that was never sold
      [kind |-> "list", txs |-> << Tx(-100002, <<Bought(T2, w, 80)>>, w) >>],
      \* no classifiable leg
      [kind |-> "list", txs |-> << Tx(0, <<Bought(T1, w, 50)>>, w) >>],
      \* a BUY followed by a record that is no object
      [kind |-> "list", txs |-> << Tx(-100002, <<Bought(T1, w, 50)>>, w), Malformed >>] }

Init == ReqIdle /\ PnlIdle /\ ExtIdle

\* the length test off by one
TooFewMints_OffByOne(m) == Len(m) < 1

\* if len(mints) < 2
TooFewMints(m) == Len(m) < 2

\* lines 709-712
Call(m, wr, pnl) ==
    /\ pc = "start"
    /\ request' = m
    /\ min_win_rate' = wr
    /\ min_pnl_sol' = pnl
    /\ IF TooFewMints(m)
       THEN /\ mints' = m
            /\ result' = InputError
            /\ holder_lists' = <<>>
            /\ pc' = "done"
       ELSE /\ mints' = Truncate(m, MaxMints)
            /\ result' = None
            /\ holder_lists' = [i \in 1..Len(mints') |-> <<>>]
            /\ pc' = "holders"
    /\ elapsed' = 0
    /\ waited' = 0
    /\ UNCHANGED <<holders_done, common, common_wallets, pnl_results, pnl_done, fetches,
                   responses, pnlVars, procVars, botVars>>

\* a gather that hands the results back in the order in which the tasks finished
GatherSlot_CompletionOrder(i, done) == Cardinality(done) + 1

\* asyncio.gather hands the result of its i-th awaitable back at index i, whatever
\* the order in which the tasks finished
GatherSlot(i, done) == i

\* a task that returned "no data" wipes the results the gather has so far
Settle_AbortOnNoData(results, slot, r, nodata) ==
    IF r = nodata THEN [k \in DOMAIN results |-> nodata] ELSE [results EXCEPT ![slot] = r]

\* the result of one task of a gather; no task touches the result of another
Settle(results, slot, r, nodata) == [results EXCEPT ![slot] = r]

\* a task that came back with "no data" is left to run again
MarkDone_RetryOnNoData(done, i, r, nodata) == IF r = nodata THEN done ELSE done \cup {i}

\* a task returns once, with data or with "no data": neither get_top_holders nor
\* calculate_wallet_pnl loops over its fetch
MarkDone(done, i, r, nodata) == done \cup {i}

\* one task of the first gather: get_top_holders(session, mints[i])
HolderTask(i, answer) ==
    /\ pc = "holders"
    /\ i \in (1..Len(mints)) \ holders_done
    /\ holder_lists' =
           Settle(holder_lists, GatherSlot(i, holders_done), get_top_holders(answer), <<>>)
    /\ holders_done' = MarkDone(holders_done, i, get_top_holders(answer), <<>>)
    /\ fetches' = [fetches EXCEPT !.holders = @ + 1]
    /\ responses' = [responses EXCEPT !.holders = (i :> answer) @@ @]
    /\ UNCHANGED <<pc, mints, min_win_rate, min_pnl_sol, common, common_wallets,
                   pnl_results, pnl_done, result, request, pnlVars, extVars>>

\* the first await returns as soon as one task has returned
HoldersSettled_FirstCompleted == holders_done # {}

\* "holder_lists = await asyncio.gather(...)": the await returns once every task has
HoldersSettled == holders_done = 1..Len(mints)

\* len(wallet) raises TypeError on an owner that is a JSON number; find_intersection
\* runs outside every try block
IntersectionRaises(hls) ==
    \E i \in 1..Len(hls) : \E k \in 1..Len(hls[i]) : hls[i][k] = NumericOwner

\* lines 723-733, once the first gather has every result
Intersect ==
    /\ pc = "holders"
    /\ HoldersSettled
    /\ IF IntersectionRaises(holder_lists)
       THEN /\ pc' = "raised"
            /\ UNCHANGED <<common, common_wallets, pnl_results, result>>
       ELSE /\ common' = find_intersection(holder_lists, mints, MinAppearances)
            /\ IF common' = <<>>
               THEN /\ result' = NoCommonWallets(holder_lists)
                    /\ pc' = "done"
                    /\ UNCHANGED <<common_wallets, pnl_results>>
               ELSE /\ common_wallets' =
                           Truncate([i \in 1..Len(common') |-> common'[i].wallet],
                                    MaxCommonWallets)
                    /\ pnl_results' = [j \in 1..Len(common_wallets') |-> None]
                    /\ pc' = "pnl"
                    /\ UNCHANGED result
    /\ excluded' = ExcludedAfterIntersection(holder_lists)
    /\ waited' = 0
    /\ UNCHANGED <<mints, min_win_rate, min_pnl_sol, holder_lists, holders_done, pnl_done,
                   fetches, request, responses, pnlVars, elapsed, served, previous,
                   other_pc, botVars>>

\* one task of the second gather: calculate_wallet_pnl(session, common_wallets[j], mints)
PnlTask(j, answer) ==
    /\ pc = "pnl"
    /\ j \in (1..Len(common_wallets)) \ pnl_done
    /\ pnl_results' =
           Settle(pnl_results, GatherSlot(j, pnl_done),
                  calculate_wallet_pnl(answer, common_wallets[j]), None)
    /\ pnl_done' = MarkDone(pnl_done, j, calculate_wallet_pnl(answer, common_wallets[j]),
                             None)
    /\ fetches' = [fetches EXCEPT !.activity = @ + 1]
    /\ responses' = [responses EXCEPT !.activity = (j :> answer) @@ @]
    /\ UNCHANGED <<pc, mints, min_win_rate, min_pnl_sol, holder_lists, holders_done, common,
                   common_wallets, result, request, pnlVars, extVars>>

\* the second await returns as soon as one task has returned
PnlSettled_FirstCompleted == pnl_done # {}

\* "pnl_results = await asyncio.gather(...)": the await returns once every task has
PnlSettled == pnl_done = 1..Len(common_wallets)

\* lines 741-763, once the second gather has every result
Rank ==
    /\ pc = "pnl"
    /\ PnlSettled
    /\ result' = Report(mints, common, common_wallets, pnl_results, min_win_rate,
                        min_pnl_sol)
    /\ pc' = "done"
    /\ UNCHANGED <<mints, min_win_rate, min_pnl_sol, holder_lists, holders_done, common,
                   common_wallets, pnl_results, pnl_done, fetches, request, responses,
                   pnlVars, extVars>>

Next ==
    \/ \E m \in SmRequests, t \in SmThresholds : Call(m, t[1], t[2])
    \/ \E i \in 1..Len(mints), answer \in SmHolderAnswers : HolderTask(i, answer)
    \/ Intersect
    \/ \E j \in 1..Len(common_wallets) :
          \E answer \in SmActivityAnswers(common_wallets[j]) : PnlTask(j, answer)
    \/ Rank

Spec == Init /\ [][Next]_vars

(***************************************************************************)
(* SpecDeadline: one request with the time its fetches take.  The clock     *)
(* counts ticks of one fetch timeout (timeout=aiohttp.ClientTimeout(        *)
(* total=12), 12 seconds); the steps of the request itself take no time.    *)
(***************************************************************************)
\* get_top_holders awaits two fetches one after the other, each under its own timeout
HolderFetches == 2
\* calculate_wallet_pnl awaits one fetch
PnlFetches == 1

\* the longest a task of the gather the request is in can take, in ticks
MaxWait == IF pc = "holders" THEN HolderFetches ELSE PnlFetches

\* a task of the gather the request is in has not returned
Outstanding ==
    \/ pc = "holders" /\ ~HoldersSettled
    \/ pc = "pnl" /\ ~PnlSettled

\* one fetch timeout passes while the request awaits a gather; a fetch that has
\* used up its timeout raises and its task returns
Tick ==
    /\ Outstanding
    /\ waited < MaxWait
    /\ elapsed' = elapsed + 1
    /\ waited' = waited + 1
    /\ UNCHANGED <<reqVars, pnlVars, procVars, botVars>>

DlNext == Next \/ Tick

SpecDeadline == Init /\ [][DlNext]_vars

(***************************************************************************)
(* SpecReplay: one process serving calls of find_smart_money one after the  *)
(* other while a second request runs in the same event loop.  A call's      *)
(* locals live in its own frame; what calls share is the module: its        *)
(* constants and the set EXCLUDED_PROGRAMS.  The second request is followed *)
(* only through its position, its locals being out of the first one's       *)
(* reach.                                                                   *)
(***************************************************************************)
\* calls served by the process
MaxCalls == 2

RpRequests == { <<T1, T2>>, <<T2, T1>> }

RpThresholds == { <<600, 100000>>, <<600, 30000>> }

RpHolderAnswers ==
    { [ok |-> FALSE, owners |-> <<>>],
      [ok |-> TRUE, owners |-> <<W1>>],
      [ok |-> TRUE, owners |-> <<W2, W1>>] }

\* the activity answers the provider may give for a wallet
RpActivityAnswers(w) ==
    { [kind |-> "not_200", txs |-> <<>>],
      \* T1 bought for 2.00004 SOL and sold for 6.00002 SOL
      [kind |-> "list", txs |-> << Tx(-100002, <<Bought(T1, w, 50)>>, w),
                                   Tx(300001, <<Sold(T1, w, 50)>>, w) >>],
      \* the same, and T3, which the request does not name, bought for 2.00004 SOL
      [kind |-> "list", txs |-> << Tx(-100002, <<Bought(T1, w, 50)>>, w),
                                   Tx(300001, <<Sold(T1, w, 50)>>, w),
                                   Tx(-100002, <<Bought(T3, w, 80)>>, w) >>],
      \* one transaction of -2.00004 SOL that brings T1, T2 and T1 again, then T1 sold
      [kind |-> "list", txs |-> << Tx(-100002, <<Bought(T1, w, 50), Bought(T2, w, 80),
                                                 Bought(T1, w, 50)>>, w),
                                   Tx(300001, <<Sold(T1, w, 50)>>, w) >>] }

\* the call has returned, or an exception has left it: its frame is dropped with
\* every local, and the process is ready for the next call
Return ==
    /\ pc \in {"done", "raised"}
    /\ served < MaxCalls
    /\ served' = served + 1
    /\ previous' = [request |-> request, min_win_rate |-> min_win_rate,
                    min_pnl_sol |-> min_pnl_sol, responses |-> responses,
                    wallets |-> common_wallets, pnl_results |-> pnl_results,
                    raised |-> pc = "raised", result |-> result]
    /\ pc' = "start"
    /\ mints' = <<>>
    /\ min_win_rate' = 0
    /\ min_pnl_sol' = 0
    /\ holder_lists' = <<>>
    /\ holders_done' = {}
    /\ common' = <<>>
    /\ common_wallets' = <<>>
    /\ pnl_results' = <<>>
    /\ pnl_done' = {}
    /\ result' = None
    /\ fetches' = [holders |-> 0, activity |-> 0]
    /\ request' = <<>>
    /\ responses' = NoResponses
    /\ UNCHANGED <<pnlVars, timeVars, excluded, other_pc, botVars>>

\* the holder lists the second request gets
OtherHolderLists == << <<W1>>, <<W1>> >>

\* the second request is called
OtherCall ==
    /\ other_pc = "start"
    /\ other_pc' = "holders"
    /\ UNCHANGED <<reqVars, pnlVars, timeVars, excluded, served, previous, botVars>>

\* the second request runs find_intersection on its own holder lists
OtherIntersect ==
    /\ other_pc = "holders"
    /\ other_pc' = "pnl"
    /\ excluded' = ExcludedAfterIntersection(OtherHolderLists)
    /\ UNCHANGED <<reqVars, pnlVars, timeVars, served, previous, botVars>>

\* the second request returns its report
OtherRank ==
    /\ other_pc = "pnl"
    /\ other_pc' = "done"
    /\ UNCHANGED <<reqVars, pnlVars, timeVars, excluded, served, previous, botVars>>

RpNext ==
    \/ \E m \in RpRequests, t \in RpThresholds : Call(m, t[1], t[2])
    \/ \E i \in 1..Len(mints), answer \in RpHolderAnswers : HolderTask(i, answer)
    \/ Intersect
    \/ \E j \in 1..Len(common_wallets) :
          \E answer \in RpActivityAnswers(common_wallets[j]) : PnlTask(j, answer)
    \/ Rank
    \/ Return
    \/ OtherCall
    \/ OtherIntersect
    \/ OtherRank

SpecReplay == Init /\ [][RpNext]_vars

(***************************************************************************)
(* SpecBot: the Telegram bot (src/bot.py) over its invite store             *)
(* (src/invites.py).  One step is one update handled to its end, or one     *)
(* call of a public function of invites.py.  A handler awaits nothing       *)
(* between its authorization test and its writes, and the application       *)
(* handles one update after the other.                                      *)
(***************************************************************************)
ADMIN_ID == 1000
Alice == 1001
Bob == 1002
UserIds == {ADMIN_ID, Alice, Bob}

\* secrets.token_urlsafe(16) draws 128 random bits: the tokens it returns are taken
\* to be new ones
TokenPool == {"inviteTokenA", "inviteTokenB"}
\* a token nobody generated
Forged == "neverGenerated"

\* invites = _load_invites(); invites[token] = {"used": False}; _save_invites(invites)
generate_invite(inv, token) == Put(inv, token, [used |-> FALSE])

\* neither "if token not in invites" nor "if invites[token]["used"]" returns False
InviteValid(inv, token) == token \in DOMAIN inv /\ ~inv[token].used

\* the invite left as it was
MarkUsed_NotSaved(inv, token, user) == inv

\* invites[token]["used"] = True; invites[token]["redeemed_by"] = user_id; _save_invites
MarkUsed(inv, token, user) == Put(inv, token, [used |-> TRUE, redeemed_by |-> user])

\* if user_id not in users: users.append(user_id); _save_users(users)
authorize_user(us, user) == IF user \in Range(us) THEN us ELSE Append(us, user)

\* return user_id in _load_users()
is_authorized(us, user) == user \in Range(us)

\* use_invite(token, user_id): the value returned and the two files after the call
use_invite(inv, us, token, user) ==
    IF InviteValid(inv, token)
    THEN [returns |-> TRUE, invites |-> MarkUsed(inv, token, user),
          users |-> authorize_user(us, user)]
    ELSE [returns |-> FALSE, invites |-> inv, users |-> us]

\* the wallets and programs of the request are no concern of the bot
restVars == <<reqVars, pnlVars, timeVars, procVars>>

\* a call of use_invite, from the bot or from elsewhere, with its True counted
Redeem(token, user) ==
    LET r == use_invite(invites, users, token, user)
    IN  /\ invites' = r.invites
        /\ users' = r.users
        /\ redeemed' = IF r.returns THEN Put(redeemed, token, Get(redeemed, token) + 1)
                        ELSE redeemed
        /\ refused' = IF ~r.returns /\ token \in DOMAIN invites
                       THEN refused \cup {token} ELSE refused

\* the test of require_auth
Authorized(user) == user = ADMIN_ID \/ is_authorized(users, user)

\* add_to_watchlist(str(user_id), ca)
add_to_watchlist(wl, user, ca) == wl \cup {<<user, ca>>}

\* remove_from_watchlist(str(user_id), ca)
remove_from_watchlist(wl, user, ca) == wl \ {<<user, ca>>}

StartArgs == {<<>>} \cup {<<t>> : t \in TokenPool \cup {Forged}}
CaArgs == {<<>>, <<T1>>}
Texts == {T1, "gm"}
ButtonData == {<<"watch", T1>>, <<"noop">>}
LinkCounts == {0, 1, 2}
UserArgs == {<<>>} \cup {<<u>> : u \in UserIds}

\* /start [token]: a user who is authorized already is welcomed and the token is
\* not looked at; without a token the handler only answers
Start(user, args) ==
    /\ IF args # <<>> /\ ~(is_authorized(users, user) \/ user = ADMIN_ID)
       THEN Redeem(args[1], user)
       ELSE UNCHANGED <<invites, users, redeemed, refused>>
    /\ UNCHANGED <<watchlist, scans, restVars>>

RECURSIVE GenerateInvites(_, _)
GenerateInvites(inv, tokens) ==
    IF tokens = {} THEN inv
    ELSE LET t == CHOOSE x \in tokens : TRUE
         IN  GenerateInvites(generate_invite(inv, t), tokens \ {t})

\* /genlink [count]: count = min(int(context.args[0]), 20) tokens, one without argument
genlink_cmd(user, count) ==
    /\ IF user # ADMIN_ID
       THEN UNCHANGED invites
       ELSE \E tokens \in SUBSET (TokenPool \ DOMAIN invites) :
               /\ Cardinality(tokens) = IF count > 20 THEN 20 ELSE count
               /\ invites' = GenerateInvites(invites, tokens)
    /\ UNCHANGED <<users, watchlist, scans, redeemed, refused, restVars>>

\* /invites: the admin is shown list_invites()
invites_cmd(user) ==
    UNCHANGED <<invites, users, watchlist, scans, redeemed, refused, restVars>>

\* /adduser <telegram_user_id>
adduser_cmd(user, args) ==
    /\ IF user # ADMIN_ID \/ args = <<>>
       THEN UNCHANGED users
       ELSE users' = authorize_user(users, args[1])
    /\ UNCHANGED <<invites, watchlist, scans, redeemed, refused, restVars>>

\* /help: the welcome text or "Access Denied"
help_cmd(user) ==
    UNCHANGED <<invites, users, watchlist, scans, redeemed, refused, restVars>>

\* /scan <CA>: run_scan awaits scan_token(ca)
scan_cmd(user, args) ==
    /\ IF ~Authorized(user) \/ args = <<>>
       THEN UNCHANGED scans
       ELSE scans' = scans \cup {user}
    /\ UNCHANGED <<invites, users, watchlist, redeemed, refused, restVars>>

\* a text that is no command: if 32 <= len(text) <= 44 and text.isalnum(): run_scan;
\* the texts of the model are alphanumeric
message_handler(user, text) ==
    /\ IF Authorized(user) /\ 32 <= Len(text) /\ Len(text) <= 44
       THEN scans' = scans \cup {user}
       ELSE UNCHANGED scans
    /\ UNCHANGED <<invites, users, watchlist, redeemed, refused, restVars>>

\* /watch <CA>
watch_cmd(user, args) ==
    /\ IF ~Authorized(user) \/ args = <<>>
       THEN UNCHANGED watchlist
       ELSE watchlist' = add_to_watchlist(watchlist, user, args[1])
    /\ UNCHANGED <<invites, users, scans, redeemed, refused, restVars>>

\* /unwatch <CA>
unwatch_cmd(user, args) ==
    /\ IF ~Authorized(user) \/ args = <<>>
       THEN UNCHANGED watchlist
       ELSE watchlist' = remove_from_watchlist(watchlist, user, args[1])
    /\ UNCHANGED <<invites, users, scans, redeemed, refused, restVars>>

\* /watchlist: the user is shown get_watchlist(str(user_id))
watchlist_cmd(user) ==
    UNCHANGED <<invites, users, watchlist, scans, redeemed, refused, restVars>>

\* an inline button was pressed: the handler is registered without require_auth
\* and tests nothing but the button's data
button_callback(user, data) ==
    /\ IF data[1] = "watch"
       THEN watchlist' = add_to_watchlist(watchlist, user, data[2])
       ELSE UNCHANGED watchlist
    /\ UNCHANGED <<invites, users, scans, redeemed, refused, restVars>>

\* generate_invite() called on its own
CallGenerateInvite ==
    /\ \E t \in TokenPool \ DOMAIN invites : invites' = generate_invite(invites, t)
    /\ UNCHANGED <<users, watchlist, scans, redeemed, refused, restVars>>

\* use_invite(token, user_id) called on its own
CallUseInvite(token, user) ==
    /\ Redeem(token, user)
    /\ UNCHANGED <<watchlist, scans, restVars>>

\* authorize_user(user_id) called on its own
CallAuthorizeUser(user) ==
    /\ users' = authorize_user(users, user)
    /\ UNCHANGED <<invites, watchlist, scans, redeemed, refused, restVars>>

\* the handlers main() registers, for an update of the given user
Handled(user) ==
    \/ \E args \in StartArgs : Start(user, args)
    \/ help_cmd(user)
    \/ \E args \in CaArgs : scan_cmd(user, args)
    \/ \E args \in CaArgs : watch_cmd(user, args)
    \/ \E args \in CaArgs : unwatch_cmd(user, args)
    \/ watchlist_cmd(user)
    \/ \E count \in LinkCounts : genlink_cmd(user, count)
    \/ invites_cmd(user)
    \/ \E args \in UserArgs : adduser_cmd(user, args)
    \/ \E data \in ButtonData : button_callback(user, data)
    \/ \E text \in Texts : message_handler(user, text)

BotNext ==
    \/ \E user \in UserIds : Handled(user)
    \/ CallGenerateInvite
    \/ \E token \in TokenPool \cup {Forged}, user \in UserIds : CallUseInvite(token, user)
    \/ \E user \in UserIds : CallAuthorizeUser(user)

SpecBot == Init /\ [][BotNext]_vars

(***************************************************************************)
(* SpecFloat: the sums of calculate_wallet_pnl in the arithmetic of the     *)
(* interpreter.  nativeBalanceChange is an int of lamports, sol_change =    *)
(* nativeBalanceChange / 1e9 is a binary64 float, and buy_sol and sell_sol  *)
(* are sums of such floats: every "/" and "+=" is rounded to 53 bits, to    *)
(* the nearest, ties to even.  A float above 0 is the record [m, e]: m the  *)
(* 53 bits of its significand, lowest bit first, e the exponent of the      *)
(* lowest bit, so that its value is m * 2^e.  Token quantities are whole    *)
(* numbers, which binary64 adds exactly.  Of the report only wins, win_rate,*)
(* total_positions, trade_count and current_holdings are built.             *)
(***************************************************************************)
MantissaBits == 53
LamportsPerSol == 1000000000     \* 1e9
FractionBits == 84               \* bits of the quotient computed below the point

FZero == [m |-> <<>>, e |-> 0]

BitAt(a, i) == IF i \in 1..Len(a) THEN a[i] ELSE 0

\* a without the zero bits above its highest one
Trim(a) ==
    LET ones == {i \in 1..Len(a) : a[i] = 1}
    IN  IF ones = {} THEN <<>>
        ELSE SubSeq(a, 1, CHOOSE i \in ones : \A j \in ones : j <= i)

\* a * 2^k
ShiftLeft(a, k) == [i \in 1..(Len(a) + k) |-> IF i <= k THEN 0 ELSE a[i - k]]

\* a + b, exact
AddBits(a, b) ==
    LET n == (IF Len(a) > Len(b) THEN Len(a) ELSE Len(b)) + 1
        carry[i \in 0..n] ==
            IF i = 0 THEN 0 ELSE (BitAt(a, i) + BitAt(b, i) + carry[i - 1]) \div 2
    IN  Trim([i \in 1..n |-> (BitAt(a, i) + BitAt(b, i) + carry[i - 1]) % 2])

\* a < b
BitsLess(a, b) ==
    \E i \in 1..Len(b) :
        /\ BitAt(a, i) < b[i]
        /\ \A j \in (i + 1)..(Len(a) + Len(b)) : BitAt(a, j) = BitAt(b, j)

\* the float nearest to bits * 2^e, ties to even; bits has no leading zero
RoundToFloat(bits, e) ==
    LET n == Len(bits)
        d == n - MantissaBits
    IN  IF n = 0 THEN FZero
        ELSE IF d <= 0 THEN [m |-> ShiftLeft(bits, -d), e |-> e + d]
        ELSE LET kept == SubSeq(bits, d + 1, n)
                 up == /\ bits[d] = 1
                       /\ (kept[1] = 1 \/ \E i \in 1..(d - 1) : bits[i] = 1)
                 r == IF up THEN AddBits(kept, <<1>>) ELSE kept
             IN  IF Len(r) > MantissaBits
                 THEN [m |-> SubSeq(r, 2, Len(r)), e |-> e + d + 1]
                 ELSE [m |-> r, e |-> e + d]

\* x + y of two floats that are not below 0
FAdd(x, y) ==
    IF x = FZero THEN y
    ELSE IF y = FZero THEN x
    ELSE LET e == IF x.e < y.e THEN x.e ELSE y.e
         IN  RoundToFloat(AddBits(ShiftLeft(x.m, x.e - e), ShiftLeft(y.m, y.e - e)), e)

\* x < y of two floats that are not below 0
FLess(x, y) ==
    IF y = FZero THEN FALSE
    ELSE IF x = FZero THEN TRUE
    ELSE LET e == IF x.e < y.e THEN x.e ELSE y.e
         IN  BitsLess(ShiftLeft(x.m, x.e - e), ShiftLeft(y.m, y.e - e))

\* the bits of r / 1e9 below the point, k of them still to come and the bits
\* found so far in bits, lowest first; the bit below the last stands for a
\* remainder that is not 0
RECURSIVE QuotientBits(_, _, _)
QuotientBits(r, k, bits) ==
    IF k = 0 THEN <<IF r = 0 THEN 0 ELSE 1>> \o bits
    ELSE LET found == <<(2 * r) \div LamportsPerSol>> \o bits
         IN  IF Len(found) > Len(bits)
             THEN QuotientBits((2 * r) % LamportsPerSol, k - 1, found)
             ELSE bits

\* n / 1e9 for an int n > 0 of lamports: the quotient is divided out bit by bit
LamportsToSol(n) ==
    LET whole == n \div LamportsPerSol
        low == QuotientBits(n % LamportsPerSol, FractionBits, <<>>)
    IN  RoundToFloat(Trim(low \o <<whole % 2, whole \div 2>>), -(FractionBits + 1))

\* the native changes of the window, in lamports: 0.1, 0.2, 0.3 and 0.6 SOL
FlLamports == {100000000, 200000000, 300000000, 600000000}

\* abs(nativeBalanceChange / 1e9) for the native changes of the window
SolOf == [n \in FlLamports |-> LamportsToSol(n)]

\* token_pnl[mint] of the defaultdict: the sums start at 0.0
TouchFloat(ledger, mint) ==
    IF LedgerIndex(ledger, mint) # 0 THEN ledger
    ELSE Append(ledger, [mint |-> mint, buy_sol |-> FZero, sell_sol |-> FZero,
                         buy_amount |-> 0, sell_amount |-> 0])

\* the body of the leg loop for one leg, n the transaction's nativeBalanceChange
ApplyLegFloat(st, leg, wallet, n) ==
    LET kind == Classify(leg, wallet, n)
        l == TouchFloat(st.token_pnl, leg.mint)
        i == LedgerIndex(l, leg.mint)
    IN  CASE kind = "BUY" ->
               [st EXCEPT
                  !.token_pnl = [l EXCEPT ![i].buy_sol = FAdd(@, SolOf[Abs(n)]),
                                          ![i].buy_amount = @ + leg.tokenAmount],
                  !.current_holdings = HoldAfterBuy(@, leg.mint, leg.tokenAmount),
                  !.trades = Append(@, [type |-> "BUY", mint |-> leg.mint,
                                        sol |-> SolOf[Abs(n)], amount |-> leg.tokenAmount])]
          [] kind = "SELL" ->
               [st EXCEPT
                  !.token_pnl = [l EXCEPT ![i].sell_sol = FAdd(@, SolOf[n]),
                                          ![i].sell_amount = @ + leg.tokenAmount],
                  !.current_holdings = HoldAfterSell(@, leg.mint, leg.tokenAmount),
                  !.trades = Append(@, [type |-> "SELL", mint |-> leg.mint,
                                        sol |-> SolOf[n], amount |-> leg.tokenAmount])]
          [] OTHER -> st

RECURSIVE ReplayLegsFloat(_, _, _, _)
ReplayLegsFloat(st, legs, wallet, n) ==
    IF legs = <<>> THEN st
    ELSE ReplayLegsFloat(ApplyLegFloat(st, Head(legs), wallet, n), Tail(legs), wallet, n)

\* one pass of "for tx in txs"
ReplayTxFloat(st, tx, wallet) ==
    ReplayLegsFloat(st, tx.tokenTransfers, wallet, SolChange(0, tx.accountData, wallet))

\* pnl = sold - bought; is_win = pnl > 0, counted only inside "if bought > 0":
\* the difference of two floats is above 0 exactly when the first is the larger
IsWinFloat(d) == d.buy_sol # FZero /\ FLess(d.buy_sol, d.sell_sol)

RECURSIVE WinsFloat(_)
WinsFloat(ledger) ==
    IF ledger = <<>> THEN 0
    ELSE (IF IsWinFloat(Head(ledger)) THEN 1 ELSE 0) + WinsFloat(Tail(ledger))

\* if not trades: return None ... return {...}
PnlReturnFloat(ledger, holdings, trds) ==
    IF trds = <<>> THEN None
    ELSE [win_rate         |-> IF Len(ledger) > 0
                               THEN Round3Ratio(WinsFloat(ledger), Len(ledger)) ELSE 0,
          wins             |-> WinsFloat(ledger),
          total_positions  |-> Len(ledger),
          current_holdings |-> PositiveHoldings(holdings),
          trade_count      |-> Len(trds)]

\* a transaction of the window with one token leg
FlTx(n, mint, from, to, amount) ==
    [accountData |-> <<[account |-> WALLET, nativeBalanceChange |-> n]>>,
     tokenTransfers |-> <<[mint |-> mint, fromUserAccount |-> from,
                           toUserAccount |-> to, tokenAmount |-> amount]>>]

\* the transactions the provider lists: T1 is bought once for 0.6 SOL and sold in
\* three parts for 0.1, 0.2 and 0.3 SOL, T2 is bought for 0.1 SOL and kept
FlPool ==
    <<FlTx(-600000000, T1, Other, WALLET, 150),
      FlTx(100000000, T1, WALLET, Other, 50),
      FlTx(200000000, T1, WALLET, Other, 50),
      FlTx(300000000, T1, WALLET, Other, 50),
      FlTx(-100000000, T2, Other, WALLET, 80)>>

\* the orders in which the provider can list them
FlOrders ==
    {p \in [1..Len(FlPool) -> 1..Len(FlPool)] : \A i, j \in 1..Len(FlPool) : p[i] = p[j] => i = j}

FlWindows == {[i \in 1..Len(FlPool) |-> FlPool[p[i]]] : p \in FlOrders}

\* the activity list the call was answered with
FlWindow == responses.activity[1].txs

\* the GET is answered with the list
FlFetch ==
    /\ pnl_pc = "fetch"
    /\ \E txs \in FlWindows :
          responses' = [responses EXCEPT !.activity = <<[kind |-> "list", txs |-> txs]>>]
    /\ pnl_pc' = "next_tx"
    /\ UNCHANGED <<pc, mints, min_win_rate, min_pnl_sol, holder_lists, holders_done, common,
                   common_wallets, pnl_results, pnl_done, result, fetches, request,
                   sol_change, token_pnl, current_holdings, trades, legs_seen, report,
                   extVars>>

\* one transaction of the list is replayed
FlReplayTx ==
    /\ pnl_pc = "next_tx"
    /\ legs_seen < Len(FlWindow)
    /\ legs_seen' = legs_seen + 1
    /\ LET tx == FlWindow[legs_seen + 1]
           st == ReplayTxFloat([token_pnl |-> token_pnl,
                                current_holdings |-> current_holdings,
                                trades |-> trades], tx, WALLET)
       IN  /\ sol_change' = SolChange(0, tx.accountData, WALLET)
           /\ token_pnl' = st.token_pnl
           /\ current_holdings' = st.current_holdings
           /\ trades' = st.trades
    /\ UNCHANGED <<pnl_pc, report, reqVars, extVars>>

\* txs is exhausted: lines 921-963
FlFinish ==
    /\ pnl_pc = "next_tx"
    /\ legs_seen = Len(FlWindow)
    /\ report' = PnlReturnFloat(token_pnl, current_holdings, trades)
    /\ pnl_pc' = "returned"
    /\ UNCHANGED <<sol_change, token_pnl, current_holdings, trades, legs_seen, reqVars, extVars>>

FlNext == FlFetch \/ FlReplayTx \/ FlFinish

SpecFloat == Init /\ [][FlNext]_vars

(***************************************************************************)
(* SpecBatch: one request on large batches.  Each gather is one step: all   *)
(* its tasks are started together and the await returns when all have       *)
(* returned.  The provider lists n wallets per token: tokens 1 and 2 share   *)
(* one block of n wallets, tokens 3 and 4 a second block, token 5 lists the  *)
(* first half of the second block again and tokens 6 and 7 share a third     *)
(* block.                                                                    *)
(***************************************************************************)

\* wallets the provider lists per token
MaxHolders == 16

\* the k-th wallet address of the provider's data
Addr(k) == "WalletXXXXXXXXXXXXXXXXXXXXXXXXXXXXXXXXXXXX" \o ToString(k)
AddrNo(w) == CHOOSE k \in 1..(3 * (MaxHolders + 1)) : Addr(k) = w

Block(first, count) == [q \in 1..count |-> Addr(first + q - 1)]

\* the provider's holder data for token t when it lists n wallets per token
BtHolderAnswer(t, n) ==
    [ok |-> TRUE,
     owners |-> CASE TokenNo(t) \in {1, 2} -> Block(1, n)
                  [] TokenNo(t) \in {3, 4} -> Block(n + 1, n)
                  [] TokenNo(t) = 5        -> Block(n + 1, n \div 2)
                  [] OTHER                 -> Block(2 * n + 1, n)]

\* the provider's activity data for wallet w under pattern p: the wallets run
\* through five kinds of activity
BtActivityAnswer(w, p) ==
    LET c == (AddrNo(w) * p) % 5
        buy == Tx(-100002, <<Bought(T1, w, 50)>>, w)
        sell == Tx(300001, <<Sold(T1, w, 50)>>, w)
    IN  CASE c = 0 -> [kind |-> "list", txs |-> <<buy, sell, sell>>]
          [] c = 1 -> [kind |-> "list", txs |-> <<buy, sell>>]
          [] c = 2 -> [kind |-> "not_200", txs |-> <<>>]
          [] c = 3 -> [kind |-> "list", txs |-> <<buy>>]
          [] OTHER -> [kind |-> "list", txs |-> <<buy, sell, sell, sell>>]

BtRequests ==
    { <<T1, T2>>, <<T1, T2, T3, T4, T5>>, <<T1, T2, T3, T4, T5, T6, T7>> }

\* lines 718-720: the first gather, every task answered
BtGatherHolders(n) ==
    /\ pc = "holders"
    /\ holders_done = {}
    /\ holder_lists' = [i \in 1..Len(mints) |-> get_top_holders(BtHolderAnswer(mints[i], n))]
    /\ holders_done' = 1..Len(mints)
    /\ fetches' = [fetches EXCEPT !.holders = @ + Len(mints)]
    /\ responses' = [responses EXCEPT
                         !.holders = [i \in 1..Len(mints) |-> BtHolderAnswer(mints[i], n)]]
    /\ UNCHANGED <<pc, mints, min_win_rate, min_pnl_sol, common, common_wallets,
                   pnl_results, pnl_done, result, request, pnlVars, extVars>>

\* lines 737-739: the second gather, every task answered
BtGatherPnl(p) ==
    /\ pc = "pnl"
    /\ pnl_done = {}
    /\ pnl_results' =
           [j \in 1..Len(common_wallets) |->
               calculate_wallet_pnl(BtActivityAnswer(common_wallets[j], p), common_wallets[j])]
    /\ pnl_done' = 1..Len(common_wallets)
    /\ fetches' = [fetches EXCEPT !.activity = @ + Len(common_wallets)]
    /\ responses' = [responses EXCEPT
                         !.activity = [j \in 1..Len(common_wallets) |->
                                          BtActivityAnswer(common_wallets[j], p)]]
    /\ UNCHANGED <<pc, mints, min_win_rate, min_pnl_sol, holder_lists, holders_done, common,
                   common_wallets, result, request, pnlVars, extVars>>

BtNext ==
    \/ \E m \in BtRequests, t \in SmThresholds : Call(m, t[1], t[2])
    \/ \E n \in 0..MaxHolders : BtGatherHolders(n)
    \/ Intersect
    \/ \E p \in 1..4 : BtGatherPnl(p)
    \/ Rank

SpecBatch == Init /\ [][BtNext]_vars

\* C1: a call with fewer than 2 tokens returns the input error and starts no
\* provider fetch, neither for holders nor for activity.
C1_InputErrorNoFetch ==
    (pc = "done" /\ Len(mints) < 2) =>
        /\ result = InputError
        /\ fetches = [holders |-> 0, activity |-> 0]
        /\ holders_done = {} /\ pnl_done = {}

\* C1 witness: a call with a single token has returned.
C1_Witness == pc = "done" /\ Len(mints) = 1 /\ result = InputError

(***************************************************************************)
(* What the holder data says, read off the holder lists themselves.         *)
(***************************************************************************)
\* the holder set of token t: every wallet listed for t
HolderSet(t) ==
    UNION {Range(holder_lists[i]) : i \in {j \in 1..Len(holder_lists) : mints[j] = t}}

\* the distinct tokens of the request that wallet w holds
HeldTokens(w) == {t \in Range(mints) : w \in HolderSet(t)}

RECURSIVE Flatten(_)
Flatten(lists) == IF lists = <<>> THEN <<>> ELSE Head(lists) \o Flatten(Tail(lists))

\* position at which w is first met when the holder lists are scanned in token order
FirstSeen(w) ==
    LET flat == Flatten(holder_lists)
    IN  CHOOSE i \in 1..Len(flat) :
            flat[i] = w /\ \A j \in 1..(i - 1) : flat[j] # w

CommonWallets == {common[i].wallet : i \in 1..Len(common)}

\* C2: every wallet of the intersection output holds at least min_appearances
\* DISTINCT tokens of the request.
C2_DistinctTokens ==
    pc = "done" =>
        \A i \in 1..Len(common) :
            Cardinality(HeldTokens(common[i].wallet)) >= MinAppearances

\* C3: no wallet of EXCLUDED_PROGRAMS is a key of the intersection output.
C3_NoExcludedKey ==
    \A i \in 1..Len(common) : common[i].wallet \notin EXCLUDED_PROGRAMS

\* C3 witness: an excluded program is listed as holder of two different tokens
\* and the intersection has been computed.
C3_Witness ==
    /\ pc = "done"
    /\ \E w \in EXCLUDED_PROGRAMS : Cardinality(HeldTokens(w)) >= MinAppearances
    /\ common # <<>>

\* C4: a non-excluded wallet of the output is keyed to exactly the tokens whose
\* holder set contains it, each token once.
C4_ExactTokenList ==
    pc = "done" =>
        \A i \in 1..Len(common) :
            common[i].wallet \notin EXCLUDED_PROGRAMS =>
                /\ Range(common[i].held_mints) = HeldTokens(common[i].wallet)
                /\ Len(common[i].held_mints) = Cardinality(HeldTokens(common[i].wallet))

\* C5: the output is ordered by number of tokens held, descending, and wallets
\* holding the same number of tokens keep their first-seen order.
C5_OrderedByTokensHeld ==
    pc = "done" =>
        \A i, j \in 1..Len(common) :
            i < j =>
                LET ni == Cardinality(HeldTokens(common[i].wallet))
                    nj == Cardinality(HeldTokens(common[j].wallet))
                IN  /\ ni >= nj
                    /\ ni = nj => FirstSeen(common[i].wallet) < FirstSeen(common[j].wallet)

(***************************************************************************)
(* What a replay did, read off the trade list and the ledgers.              *)
(***************************************************************************)
ZeroLedger(mint) ==
    [mint |-> mint, buy_sol |-> 0, sell_sol |-> 0, buy_amount |-> 0, sell_amount |-> 0]

\* the ledger of a mint, all zero when the mint has none
LedgerOf(ledger, mint) ==
    IF LedgerIndex(ledger, mint) = 0 THEN ZeroLedger(mint)
    ELSE ledger[LedgerIndex(ledger, mint)]

LedgerMints(ledger) == {ledger[i].mint : i \in 1..Len(ledger)}

\* the tokens with at least one BUY leg
BoughtTokens == {trades[i].mint : i \in {j \in 1..Len(trades) : trades[j].type = "BUY"}}

RECURSIVE SumOver(_, _)
SumOver(S, ledger) ==
    IF S = {} THEN 0
    ELSE LET m == CHOOSE x \in S : TRUE
         IN  (LedgerOf(ledger, m).sell_sol - LedgerOf(ledger, m).buy_sol)
                 + SumOver(S \ {m}, ledger)

IsReceiver(leg) == leg.toUserAccount = WALLET
IsSender(leg) == leg.fromUserAccount = WALLET

OtherLedgersUnchanged(mint) ==
    \A m \in (LedgerMints(token_pnl) \cup LedgerMints(token_pnl')) \ {mint} :
        /\ LedgerOf(token_pnl', m) = LedgerOf(token_pnl, m)
        /\ Get(current_holdings', m) = Get(current_holdings, m)

BookedAsBuy(leg) ==
    /\ trades' = Append(trades, [type |-> "BUY", mint |-> leg.mint,
                                 sol |-> Abs(sol_change), amount |-> leg.tokenAmount])
    /\ LedgerOf(token_pnl', leg.mint) =
           [LedgerOf(token_pnl, leg.mint) EXCEPT !.buy_sol = @ + Abs(sol_change),
                                                 !.buy_amount = @ + leg.tokenAmount]
    /\ Get(current_holdings', leg.mint) = Get(current_holdings, leg.mint) + leg.tokenAmount
    /\ OtherLedgersUnchanged(leg.mint)

BookedAsSell(leg) ==
    /\ trades' = Append(trades, [type |-> "SELL", mint |-> leg.mint,
                                 sol |-> sol_change, amount |-> leg.tokenAmount])
    /\ LedgerOf(token_pnl', leg.mint) =
           [LedgerOf(token_pnl, leg.mint) EXCEPT !.sell_sol = @ + sol_change,
                                                 !.sell_amount = @ + leg.tokenAmount]
    /\ Get(current_holdings', leg.mint) \in
           {0, Get(current_holdings, leg.mint) - leg.tokenAmount}
    /\ OtherLedgersUnchanged(leg.mint)

NothingBooked == UNCHANGED <<token_pnl, current_holdings, trades>>

\* C6 as stated: a leg is a BUY exactly when the wallet receives it and its
\* native change is negative, a SELL exactly when the wallet sends it and its
\* native change is positive, and every other leg changes nothing.
C6_BuySellExactly ==
    [][\A leg \in Legs :
          PnlReplayLeg(leg) =>
              IF IsReceiver(leg) /\ sol_change < 0 THEN BookedAsBuy(leg)
              ELSE IF IsSender(leg) /\ sol_change > 0 THEN BookedAsSell(leg)
              ELSE NothingBooked]_vars

\* C6 amended: the same for a leg that names a mint and moves a non-zero
\* quantity; a leg with an empty mint or a zero quantity changes nothing.
C6_BuySellExactlyForQuantity ==
    [][\A leg \in Legs :
          PnlReplayLeg(leg) =>
              IF leg.mint = "" \/ leg.tokenAmount = 0 THEN NothingBooked
              ELSE IF IsReceiver(leg) /\ sol_change < 0 THEN BookedAsBuy(leg)
              ELSE IF IsSender(leg) /\ sol_change > 0 THEN BookedAsSell(leg)
              ELSE NothingBooked]_vars

\* C6 witness: a BUY and a SELL were booked and one more leg was ignored.
C6_Witness ==
    /\ \E i \in 1..Len(trades) : trades[i].type = "BUY"
    /\ \E i \in 1..Len(trades) : trades[i].type = "SELL"
    /\ legs_seen > Len(trades)

\* C7: the reported realized PnL is the sum of sold - bought over exactly the
\* tokens with at least one BUY leg.
C7_PnlOverBoughtTokens ==
    (pnl_pc = "returned" /\ report # None) =>
        report.total_pnl_sol = Round4(SumOver(BoughtTokens, token_pnl))

\* C8: the win rate is the number of bought tokens with positive PnL divided
\* by the number of bought tokens.
C8_WinRateOverBoughtTokens ==
    (pnl_pc = "returned" /\ report # None /\ BoughtTokens # {}) =>
        report.win_rate =
            Round3Ratio(Cardinality({m \in BoughtTokens :
                                        LedgerOf(token_pnl, m).sell_sol
                                            - LedgerOf(token_pnl, m).buy_sol > 0}),
                        Cardinality(BoughtTokens))

\* C9: after every step of the replay the held quantity of every token is >= 0.
C9_HoldingNonNegative ==
    \A m \in DOMAIN current_holdings : current_holdings[m] >= 0

\* C9 witness: more of a token was sold than was ever bought.
C9_Witness ==
    \E i \in 1..Len(token_pnl) :
        /\ token_pnl[i].buy_amount > 0
        /\ token_pnl[i].sell_amount > token_pnl[i].buy_amount
        /\ Get(current_holdings, token_pnl[i].mint) = 0

\* C10 as stated: the call returns null exactly when no leg was classified.
C10_NullIffNoTrade ==
    pnl_pc \in {"returned", "except"} => (report = None <=> trades = <<>>)

\* C10 amended: a call that returns from the try block returns null exactly when
\* no leg was classified; a call that ends in the except clause returns null.
C10_NullIffNoTradeOrFailure ==
    /\ pnl_pc = "returned" => (report = None <=> trades = <<>>)
    /\ pnl_pc = "except" => report = None

\* C10 witness: a window whose legs were all ignored was replayed to its end.
C10_Witness ==
    pnl_pc = "returned" /\ legs_seen > 0 /\ trades = <<>> /\ report = None

(***************************************************************************)
(* What a request did, read off the log of the provider's answers.          *)
(***************************************************************************)
\* the value the j-th wallet task returns on the answer the provider gave to it
OwnPnl(j) == calculate_wallet_pnl(responses.activity[j], common_wallets[j])

\* the value the i-th holder task returns on the answer the provider gave to it
OwnHolders(i) == get_top_holders(responses.holders[i])

ActivityFetchFailed(j) == responses.activity[j].kind \in {"exception", "not_200"}

IsReport(r) == "qualified_wallets" \in DOMAIN r

\* the wallets of the report's qualified list
Listed(r) == {r.qualified_wallets[k].wallet : k \in 1..Len(r.qualified_wallets)}

\* C11: a task whose fetch failed degrades to empty/null, every settled task holds
\* the value of its own answer whatever happened to the others, and the report
\* lists every wallet whose own reconstruction qualifies, with its own figures.
C11_FailureIsolation ==
    /\ \A i \in holders_done :
           /\ holder_lists[i] = OwnHolders(i)
           /\ ~responses.holders[i].ok => holder_lists[i] = <<>>
    /\ \A j \in pnl_done :
           /\ pnl_results[j] = OwnPnl(j)
           /\ ActivityFetchFailed(j) => pnl_results[j] = None
    /\ (pc = "done" /\ pnl_done # {} /\ Len(common_wallets) <= TopQualified) =>
           /\ IsReport(result)
           /\ \A j \in 1..Len(common_wallets) :
                  Qualifies(OwnPnl(j), min_win_rate, min_pnl_sol) =>
                      \E k \in 1..Len(result.qualified_wallets) :
                          /\ result.qualified_wallets[k].wallet = common_wallets[j]
                          /\ result.qualified_wallets[k].total_pnl_sol =
                                 OwnPnl(j).total_pnl_sol
                          /\ result.qualified_wallets[k].token_breakdown =
                                 OwnPnl(j).token_breakdown

\* C11 witness: one holder fetch failed and the activity fetch of the second of
\* three candidate wallets failed; the report lists the first and the third.
C11_Witness ==
    /\ pc = "done"
    /\ \E i \in holders_done : ~responses.holders[i].ok
    /\ Len(common_wallets) = 3
    /\ ActivityFetchFailed(2)
    /\ IsReport(result)
    /\ Listed(result) = {common_wallets[1], common_wallets[3]}

\* C12: a candidate wallet is in the qualified list exactly when its report is
\* non-null, its win rate is >= min_win_rate and its PnL is >= min_pnl_sol.
C12_QualifiedIff ==
    (pc = "done" /\ IsReport(result) /\ Len(common_wallets) <= TopQualified) =>
        \A j \in 1..Len(common_wallets) :
            common_wallets[j] \in Listed(result) <=>
                /\ pnl_results[j] # None
                /\ pnl_results[j].win_rate >= min_win_rate
                /\ pnl_results[j].total_pnl_sol >= min_pnl_sol

\* C12 witness: with min_pnl_sol = 10.0 a wallet with win rate 1.0 and PnL 4.0 is
\* left out and a wallet with a PnL of exactly 10.0 is listed.
C12_Witness ==
    /\ pc = "done"
    /\ IsReport(result)
    /\ min_pnl_sol = 100000
    /\ \E j \in 1..Len(common_wallets) :
           /\ pnl_results[j] # None
           /\ pnl_results[j].win_rate = 1000
           /\ pnl_results[j].total_pnl_sol = 40000
           /\ common_wallets[j] \notin Listed(result)
    /\ \E j \in 1..Len(common_wallets) :
           /\ pnl_results[j] # None
           /\ pnl_results[j].total_pnl_sol = min_pnl_sol
           /\ common_wallets[j] \in Listed(result)

(***************************************************************************)
(* What the ranking had to rank, read off the second gather's results.      *)
(***************************************************************************)
\* the position of a wallet among the candidates
CandNo(w) == CHOOSE j \in 1..Len(common_wallets) : common_wallets[j] = w

\* the candidates that pass the filter
QualifyingSet ==
    {j \in 1..Len(common_wallets) : Qualifies(pnl_results[j], min_win_rate, min_pnl_sol)}

PnlOf(j) == pnl_results[j].total_pnl_sol

\* the candidates of the report's list
ListedNos(r) == {CandNo(r.qualified_wallets[k].wallet) : k \in 1..Len(r.qualified_wallets)}

\* C13: the list holds min(10, number qualifying) distinct qualifying wallets,
\* each with its own PnL; no entry has a smaller PnL than the next one and equal
\* PnLs keep candidate order; every qualifying wallet left out ranks after every
\* listed one.
C13_TopTenByPnl ==
    (pc = "done" /\ IsReport(result)) =>
        LET L == result.qualified_wallets
        IN  /\ Len(L) = IF Cardinality(QualifyingSet) > TopQualified
                        THEN TopQualified ELSE Cardinality(QualifyingSet)
            /\ Cardinality(ListedNos(result)) = Len(L)
            /\ \A k \in 1..Len(L) :
                   /\ L[k].wallet \in Range(common_wallets)
                   /\ CandNo(L[k].wallet) \in QualifyingSet
                   /\ L[k].total_pnl_sol = PnlOf(CandNo(L[k].wallet))
            /\ \A k \in 1..(Len(L) - 1) :
                   \/ L[k].total_pnl_sol > L[k + 1].total_pnl_sol
                   \/ /\ L[k].total_pnl_sol = L[k + 1].total_pnl_sol
                      /\ CandNo(L[k].wallet) < CandNo(L[k + 1].wallet)
            /\ \A j \in QualifyingSet \ ListedNos(result) : \A k \in 1..Len(L) :
                   \/ PnlOf(j) < L[k].total_pnl_sol
                   \/ /\ PnlOf(j) = L[k].total_pnl_sol
                      /\ j > CandNo(L[k].wallet)

\* C13 witness: more than 10 wallets qualify; the list holds equal PnLs next to
\* each other and a step down, and a wallet left out ties with the last entry.
C13_Witness ==
    /\ pc = "done"
    /\ IsReport(result)
    /\ Cardinality(QualifyingSet) > TopQualified
    /\ LET L == result.qualified_wallets
       IN  /\ \E k \in 1..(Len(L) - 1) : L[k].total_pnl_sol = L[k + 1].total_pnl_sol
           /\ \E k \in 1..(Len(L) - 1) : L[k].total_pnl_sol > L[k + 1].total_pnl_sol
           /\ \E j \in QualifyingSet \ ListedNos(result) :
                  PnlOf(j) = L[Len(L)].total_pnl_sol

\* C14: a report carries the number of candidate wallets whose activity was
\* fetched, the number of wallets that passed the filter and the thresholds of
\* the request.  The report's fields are mints_analyzed, total_common_wallets,
\* qualified_wallets, min_win_rate and min_pnl_sol.
C14_ReportCounters ==
    (pc = "done" /\ IsReport(result)) =>
        /\ result.total_common_wallets = fetches.activity
        /\ Len(result.qualified_wallets) = Cardinality(QualifyingSet)
        /\ result.min_win_rate = min_win_rate
        /\ result.min_pnl_sol = min_pnl_sol

\* the first n entries of a list, or all of it
FirstN(seq, n) == [k \in 1..(IF Len(seq) > n THEN n ELSE Len(seq)) |-> seq[k]]

\* C20: at most 5 holder fetches and at most 30 activity fetches are started;
\* the tokens fetched are the first 5 of the request and the wallets fetched are
\* the first 30 of the ordered intersection.
C20_BoundedFanOut ==
    /\ fetches.holders <= MaxMints
    /\ fetches.activity <= MaxCommonWallets
    /\ pc \in {"holders", "pnl", "done", "raised"} /\ Len(request) >= 2 =>
           /\ mints = FirstN(request, MaxMints)
           /\ DOMAIN responses.holders \subseteq 1..Len(mints)
           /\ fetches.holders <= Len(mints)
    /\ pc \in {"pnl", "done"} /\ common # <<>> =>
           /\ common_wallets = FirstN([j \in 1..Len(common) |-> common[j].wallet],
                                      MaxCommonWallets)
           /\ DOMAIN responses.activity \subseteq 1..Len(common_wallets)
           /\ fetches.activity <= Len(common_wallets)

\* C20 witness: a request of more than 5 tokens with more than 30 common wallets
\* has returned after 5 holder fetches and 30 activity fetches.
C20_Witness ==
    /\ pc = "done"
    /\ Len(request) > MaxMints
    /\ Len(common) > MaxCommonWallets
    /\ fetches = [holders |-> MaxMints, activity |-> MaxCommonWallets]
    /\ IsReport(result)

C16_NeverRaises == pc # "raised"

\* C17: the intersection is computed and activity fetches are started only after
\* every holder task has returned; the ranking runs and a report exists only
\* after every activity task has returned.
C17_StageOrdering ==
    /\ (common # <<>> \/ fetches.activity > 0 \/ pc \in {"pnl", "raised"}
            \/ (pc = "done" /\ Len(request) >= 2)) =>
           holders_done = 1..Len(mints)
    /\ pc = "holders" => (result = None /\ common_wallets = <<>>)
    /\ pc = "pnl" => result = None
    /\ (pc = "done" /\ IsReport(result)) => pnl_done = 1..Len(common_wallets)

\* C17 witness: the second gather waits for two of three activity tasks; the
\* first gather is complete and nothing is ranked yet.
C17_Witness ==
    /\ pc = "pnl"
    /\ Len(common_wallets) = 3
    /\ Cardinality(pnl_done) = 1
    /\ holders_done = 1..Len(mints)
    /\ result = None

\* the request run task after task, in the order of the lists, on the logged answers
SequentialRun ==
    LET ms == FirstN(request, MaxMints)
        hl == [i \in 1..Len(ms) |-> get_top_holders(responses.holders[i])]
        cm == find_intersection(hl, ms, MinAppearances)
        cw == FirstN([j \in 1..Len(cm) |-> cm[j].wallet], MaxCommonWallets)
        pr == [j \in 1..Len(cw) |-> calculate_wallet_pnl(responses.activity[j], cw[j])]
    IN  IF cm = <<>> THEN NoCommonWallets(hl)
        ELSE Report(ms, cm, cw, pr, min_win_rate, min_pnl_sol)

\* C18: inside a gather the slot of a task that has not returned is untouched,
\* and the returned value is the one a run of the tasks in list order gives on
\* the same answers, whatever the order in which the tasks returned.
C18_OrderIndependent ==
    /\ pc = "holders" => \A i \in (1..Len(mints)) \ holders_done : holder_lists[i] = <<>>
    /\ pc = "pnl" => \A j \in (1..Len(common_wallets)) \ pnl_done : pnl_results[j] = None
    /\ (pc = "done" /\ Len(request) >= 2) => result = SequentialRun

\* C18 witness: the task of the last of three wallets has returned data before
\* the tasks of the first two.
C18_Witness ==
    /\ pc = "pnl"
    /\ Len(common_wallets) = 3
    /\ pnl_done = {3}
    /\ pnl_results[3] # None

\* C19: every step starts at most one fetch, for a task that has not returned
\* yet; a task that has returned never runs again, and its result and the
\* provider's answer to it stay as they are.
C19_NoRetry ==
    [][/\ holders_done \subseteq holders_done'
       /\ pnl_done \subseteq pnl_done'
       /\ fetches'.holders - fetches.holders = Cardinality(holders_done' \ holders_done)
       /\ fetches'.activity - fetches.activity = Cardinality(pnl_done' \ pnl_done)
       /\ Cardinality(Range(common_wallets')) = Len(common_wallets')
       /\ \A i \in holders_done :
              /\ holder_lists'[i] = holder_lists[i]
              /\ responses'.holders[i] = responses.holders[i]
       /\ \A j \in pnl_done :
              /\ pnl_results'[j] = pnl_results[j]
              /\ responses'.activity[j] = responses.activity[j]]_vars

\* C19 witness: a request has returned a report although one holder fetch and
\* one activity fetch failed; each task was fetched once.
C19_Witness ==
    /\ pc = "done"
    /\ IsReport(result)
    /\ \E i \in holders_done : ~responses.holders[i].ok
    /\ \E j \in pnl_done : ActivityFetchFailed(j) /\ pnl_results[j] = None
    /\ fetches = [holders |-> Len(mints), activity |-> Len(common_wallets)]

(***************************************************************************)
(* What a deadline of the whole request would be.                           *)
(***************************************************************************)
\* the longest deadline that can expire while a fetch is outstanding: one tick less
\* than the two gathers can take together
RequestDeadline == HolderFetches + PnlFetches - 1

\* C21: once the deadline of the request has expired the request no longer awaits
\* outstanding fetches: it has returned, with what had settled by then.
C21_DeadlineEndsRequest ==
    elapsed > RequestDeadline => ~Outstanding

(***************************************************************************)
(* What a call finds of the calls before it and beside it.                  *)
(***************************************************************************)
\* the call before this one was given the same arguments and the same answers
SameAsPrevious ==
    /\ previous # None
    /\ request = previous.request
    /\ min_win_rate = previous.min_win_rate
    /\ min_pnl_sol = previous.min_pnl_sol
    /\ responses = previous.responses

\* C22: the module-level exclusion set is never changed; every call returns what
\* a run of its own tasks alone gives on its own provider answers, whatever calls
\* came before it or run beside it; a call given the arguments and answers of the
\* call before it returns the same report, and a wallet whose activity answer is
\* the same as in the call before gets the same reconstruction.
C22_NoStateLeftBehind ==
    /\ excluded = EXCLUDED_PROGRAMS
    /\ (pc = "done" /\ Len(request) >= 2) => result = SequentialRun
    /\ (pc = "done" /\ SameAsPrevious) => (~previous.raised /\ result = previous.result)
    /\ previous # None =>
           \A j \in pnl_done : \A k \in 1..Len(previous.wallets) :
               (/\ common_wallets[j] = previous.wallets[k]
                /\ responses.activity[j] = previous.responses.activity[k])
                   => pnl_results[j] = previous.pnl_results[k]

\* C22 witness: the second call of the process was given what the first was given
\* and has returned a report with a qualified wallet, while the other request is
\* past its intersection and has not returned yet.
C22_Witness ==
    /\ pc = "done"
    /\ served = 1
    /\ SameAsPrevious
    /\ IsReport(result)
    /\ result.qualified_wallets # <<>>
    /\ other_pc = "pnl"

(***************************************************************************)
(* What a wallet's activity says about the tokens of the request.           *)
(***************************************************************************)
\* the token legs of a transaction that move a token of the request
AnalyzedLegs(tx) ==
    LET Named(leg) == IsMalformed(leg) \/ leg.mint \in Range(mints)
    IN  IF IsMalformed(tx) THEN tx
        ELSE [tx EXCEPT !.tokenTransfers = SelectSeq(@, Named)]

\* an activity answer without the legs of tokens the request does not name
AnalyzedOnly(answer) ==
    [answer EXCEPT !.txs = [k \in 1..Len(answer.txs) |-> AnalyzedLegs(answer.txs[k])]]

\* the reconstruction of the j-th wallet from the legs of the analyzed tokens
AnalyzedPnl(j) == calculate_wallet_pnl(AnalyzedOnly(responses.activity[j]), common_wallets[j])

\* C23: the legs of tokens that are not in the request change nothing: a wallet
\* has a reconstruction, a realized PnL, a win rate and a place among the
\* qualified exactly as it has on the legs of the analyzed tokens alone.
C23_AnalyzedTokensOnly ==
    \A j \in pnl_done :
        /\ pnl_results[j] = None <=> AnalyzedPnl(j) = None
        /\ pnl_results[j] # None /\ AnalyzedPnl(j) # None =>
               /\ pnl_results[j].total_pnl_sol = AnalyzedPnl(j).total_pnl_sol
               /\ pnl_results[j].win_rate = AnalyzedPnl(j).win_rate
        /\ Qualifies(pnl_results[j], min_win_rate, min_pnl_sol)
               <=> Qualifies(AnalyzedPnl(j), min_win_rate, min_pnl_sol)

\* C24: no wallet occurs twice in the holder list get_top_holders returns for a
\* token, also when several of the token's largest token accounts have the same
\* owner.
C24_HolderSetDeduplicated ==
    \A i \in holders_done : Cardinality(Range(holder_lists[i])) = Len(holder_lists[i])

(***************************************************************************)
(* What the invite store has accepted.                                      *)
(***************************************************************************)
\* C25: use_invite returns True at most once per token and never for a token that
\* was not generated; an invite once used stays as it is; a redemption of a used
\* or unknown token, by /start or by a call, returns False and changes neither
\* the invites nor the authorized users.
C25_InviteWorksOnce ==
    [][\A t \in TokenPool \cup {Forged} :
          /\ Get(redeemed', t) <= 1
          /\ Get(redeemed', t) > 0 => (t \in DOMAIN invites' /\ invites'[t].used)
          /\ (t \in DOMAIN invites /\ invites[t].used) =>
                 /\ t \in DOMAIN invites' /\ invites'[t] = invites[t]
                 /\ Get(redeemed', t) = Get(redeemed, t)
          /\ \A user \in UserIds :
                 (~InviteValid(invites, t)
                      /\ (Start(user, <<t>>) \/ CallUseInvite(t, user))) =>
                     /\ invites' = invites
                     /\ users' = users
                     /\ redeemed' = redeemed]_vars

\* C25 witness: a token was redeemed by one user and has been refused since; the
\* redeemer is the only authorized user.
C25_Witness ==
    \E t \in DOMAIN invites : \E user \in UserIds \ {ADMIN_ID} :
        /\ invites[t].used
        /\ invites[t].redeemed_by # user
        /\ Get(redeemed, t) = 1
        /\ ~is_authorized(users, user)
        /\ refused = {t}
        /\ users = <<invites[t].redeemed_by>>

(***************************************************************************)
(* The order of a wallet's token list.                                      *)
(***************************************************************************)
\* the list is in ascending order of the token addresses
IsSortedList(held) ==
    \A k \in 1..(Len(held) - 1) : TokenNo(held[k]) <= TokenNo(held[k + 1])

\* the list names tokens of ms from position p on, in the order of ms
RECURSIVE InOrderOf(_, _, _)
InOrderOf(held, ms, p) ==
    IF held = <<>> THEN TRUE
    ELSE IF \E q \in p..Len(ms) : ms[q] = Head(held)
    THEN InOrderOf(Tail(held), ms,
                   CHOOSE q \in p..Len(ms) :
                       ms[q] = Head(held) /\ \A r \in p..(q - 1) : ms[r] # Head(held))
    ELSE FALSE

\* C26 as stated: the token list of every wallet of the intersection is sorted.
C26_TokenListSorted ==
    \A i \in 1..Len(common) : IsSortedList(common[i].held_mints)

\* C26 amended: the token list of every wallet of the intersection names tokens
\* of the request in the order in which the request gives them.
C26_TokenListInRequestOrder ==
    \A i \in 1..Len(common) : InOrderOf(common[i].held_mints, mints, 1)

\* C26 witness: the request names T2 before T1 and a wallet of the intersection
\* holds both.
C26_Witness ==
    /\ mints = <<T2, T1>>
    /\ \E i \in 1..Len(common) : common[i].held_mints = <<T2, T1>>

(***************************************************************************)
(* Who may use the bot.                                                     *)
(***************************************************************************)
\* C27: a handler that runs for a user who is neither the admin nor in the list
\* of authorized users runs no scan and changes no watchlist; the only change it
\* can make is the one of /start redeeming a valid unused invite.
C27_InviteOnly ==
    [][\A user \in UserIds :
          (Handled(user) /\ ~Authorized(user)) =>
              /\ scans' = scans
              /\ watchlist' = watchlist
              /\ (invites' # invites \/ users' # users) =>
                     \E args \in StartArgs :
                         /\ args # <<>>
                         /\ InviteValid(invites, args[1])
                         /\ Start(user, args)]_vars

(***************************************************************************)
(* The ledgers and the order of the legs.                                   *)
(***************************************************************************)
\* the ledgers, holdings and trades after the whole list txs
RECURSIVE ReplayTxsFloat(_, _, _)
ReplayTxsFloat(st, txs, wallet) ==
    IF txs = <<>> THEN st
    ELSE ReplayTxsFloat(ReplayTxFloat(st, Head(txs), wallet), Tail(txs), wallet)

ReplayedInOrder(txs) ==
    ReplayTxsFloat([token_pnl |-> <<>>, current_holdings |-> EmptyDict, trades |-> <<>>],
                   txs, WALLET)

\* C28: for every token the holding is at most the quantity bought and at least
\* the quantity bought less the quantity sold, and when the list is exhausted
\* the native and quantity sums of every token, its win flag and the win rate
\* are what the same legs give in any other order.
C28_LedgerBoundsOrderFree ==
    /\ \A i \in 1..Len(token_pnl) :
          LET d == token_pnl[i]
              held == Get(current_holdings, d.mint)
          IN  held <= d.buy_amount /\ held >= d.buy_amount - d.sell_amount
    /\ pnl_pc = "returned" =>
          \A txs \in FlWindows :
              LET st == ReplayedInOrder(txs)
              IN  /\ \A i \in 1..Len(token_pnl) :
                        LET d == token_pnl[i]
                            o == LedgerOf(st.token_pnl, d.mint)
                        IN  /\ o.buy_sol = d.buy_sol /\ o.sell_sol = d.sell_sol
                            /\ o.buy_amount = d.buy_amount /\ o.sell_amount = d.sell_amount
                            /\ IsWinFloat(o) = IsWinFloat(d)
                  /\ PnlReturnFloat(st.token_pnl, st.current_holdings, st.trades).win_rate
                        = report.win_rate

(***************************************************************************)
(* The native amount of a transaction with several legs.                    *)
(***************************************************************************)
\* the legs of tx that are classified as kind and name mint
LegsOfKind(tx, wallet, kind, mint) ==
    {i \in 1..Len(tx.tokenTransfers) :
        /\ tx.tokenTransfers[i].mint = mint
        /\ Classify(tx.tokenTransfers[i], wallet,
                    SolChange(0, tx.accountData, wallet)) = kind}

\* the sum, over the legs of txs classified as kind that name a mint of ms, of the
\* absolute native change of the leg's transaction
RECURSIVE NativePerLeg(_, _, _, _)
NativePerLeg(txs, wallet, kind, ms) ==
    IF txs = <<>> THEN 0
    ELSE LET tx == Head(txs)
             legs == UNION {LegsOfKind(tx, wallet, kind, m) : m \in ms}
         IN  Cardinality(legs) * Abs(SolChange(0, tx.accountData, wallet))
                 + NativePerLeg(Tail(txs), wallet, kind, ms)

\* the sum, over the transactions of txs with a leg classified as kind, of the
\* absolute native change
RECURSIVE NativePerTx(_, _, _)
NativePerTx(txs, wallet, kind) ==
    IF txs = <<>> THEN 0
    ELSE LET tx == Head(txs)
             legs == UNION {LegsOfKind(tx, wallet, kind, m) : m \in Mints}
         IN  (IF legs = {} THEN 0 ELSE Abs(SolChange(0, tx.accountData, wallet)))
                 + NativePerTx(Tail(txs), wallet, kind)

RECURSIVE SumBuySol(_)
SumBuySol(ledger) ==
    IF ledger = <<>> THEN 0 ELSE Head(ledger).buy_sol + SumBuySol(Tail(ledger))

RECURSIVE SumSellSol(_)
SumSellSol(ledger) ==
    IF ledger = <<>> THEN 0 ELSE Head(ledger).sell_sol + SumSellSol(Tail(ledger))

\* the ledgers calculate_wallet_pnl has after the replay of the answer to task j
LedgersOfTask(j) ==
    ReplayTxs([token_pnl |-> <<>>, current_holdings |-> EmptyDict, trades |-> <<>>,
               raised |-> FALSE],
              responses.activity[j].txs, common_wallets[j]).token_pnl

\* C29: after the replay of an activity list the bought and the sold native sum
\* of every token is the sum, over the legs of that token classified as BUY or as
\* SELL, of the whole absolute native change of the leg's transaction, and so are
\* the sums over all tokens.
C29_NativeBookedPerLeg ==
    \A j \in pnl_done :
        responses.activity[j].kind = "list" =>
            LET txs == responses.activity[j].txs
                w == common_wallets[j]
                ledger == LedgersOfTask(j)
            IN  /\ \A m \in Mints :
                      /\ LedgerOf(ledger, m).buy_sol = NativePerLeg(txs, w, "BUY", {m})
                      /\ LedgerOf(ledger, m).sell_sol = NativePerLeg(txs, w, "SELL", {m})
                /\ SumBuySol(ledger) = NativePerLeg(txs, w, "BUY", Mints)
                /\ SumSellSol(ledger) = NativePerLeg(txs, w, "SELL", Mints)

\* C29 witness: a task was answered with a transaction of three BUY legs, two of
\* T1 and one of T2; the bought sum over all tokens is three times the native
\* change, and the sum over the transactions is the native change once.
C29_Witness ==
    \E j \in pnl_done :
        /\ responses.activity[j].kind = "list"
        /\ \E k \in 1..Len(responses.activity[j].txs) :
              LET tx == responses.activity[j].txs[k]
              IN  /\ Cardinality(LegsOfKind(tx, common_wallets[j], "BUY", T1)) = 2
                  /\ Cardinality(LegsOfKind(tx, common_wallets[j], "BUY", T2)) = 1
                  /\ SumBuySol(LedgersOfTask(j))
                        = 3 * Abs(SolChange(0, tx.accountData, common_wallets[j]))
        /\ NativePerTx(responses.activity[j].txs, common_wallets[j], "BUY")
              < SumBuySol(LedgersOfTask(j))
        /\ pnl_results[j] # None

(***************************************************************************)
(* The qualified wallets of a report and the intersection.                  *)
(***************************************************************************)
\* C30: in a returned report no wallet is listed twice, and every listed wallet
\* is one of the first MaxCommonWallets wallets of the intersection, has a
\* reconstruction that is not null, and carries as tokens_held the token list
\* the intersection has for that wallet.
C30_ListedFromIntersection ==
    (pc = "done" /\ IsReport(result)) =>
        LET q == result.qualified_wallets
        IN  /\ \A a, b \in 1..Len(q) : q[a].wallet = q[b].wallet => a = b
            /\ \A a, b \in 1..Len(common) : common[a].wallet = common[b].wallet => a = b
            /\ Len(common_wallets) <= MaxCommonWallets
            /\ \A a \in 1..Len(q) :
                  \E j \in 1..Len(common_wallets) :
                      /\ j <= Len(common)
                      /\ common[j].wallet = q[a].wallet
                      /\ common_wallets[j] = q[a].wallet
                      /\ pnl_results[j] # None
                      /\ q[a].tokens_held = common[j].held_mints

\* C30 witness: a report over an intersection of more than MaxCommonWallets
\* wallets lists a wallet of three tokens and a wallet of two, a candidate has a
\* null reconstruction, and a wallet of the intersection is no candidate.
C30_Witness ==
    /\ pc = "done" /\ IsReport(result)
    /\ Len(common) > MaxCommonWallets
    /\ \E a, b \in 1..Len(result.qualified_wallets) :
          /\ Len(result.qualified_wallets[a].tokens_held) = 3
          /\ Len(result.qualified_wallets[b].tokens_held) = 2
    /\ \E j \in 1..Len(common_wallets) : pnl_results[j] = None
    /\ \E i \in 1..Len(common) : common[i].wallet \notin Range(common_wallets)

====
